---- MODULE Spec2Model ----
(***************************************************************************)
(* Verification model of the market-analysis pipeline:                     *)
(*   - the analysis agent (coverage check, workflow orchestration,         *)
(*     graph-store writes, report generation) and its HTTP entry points,   *)
(*   - the front door of the web-search agent (POST /search),              *)
(*   - the data-extraction agent (text cleaning and chunking, the worker   *)
(*     pool, name normalisation, deduplication, enrichment, inference,     *)
(*     scoring) and its graph-store writer,                                *)
(*   - the web-scraping agent (scrape_urls) and the result limit shared    *)
(*     by the routes of the web-search agent.                              *)
(* Every definition is a translation of the Python source it names.        *)
(***************************************************************************)
EXTENDS Integers, Sequences, FiniteSets, TLC

\* ------------------------------------------------------------------------
\* Bounds of the model
\* ------------------------------------------------------------------------
MaxDbEntities == 7
MaxDbRelationships == 3
MaxSearchResults == 2
MaxExpanded == 2
MaxHits == 6
MaxExtracted == 2
MaxSessions == 2

\* ------------------------------------------------------------------------
\* Program constants
\* ------------------------------------------------------------------------
MAX_ITERATIONS == 3
MIN_ENTITIES_FALLBACK == 5
MIN_RELATIONSHIPS_FALLBACK == 3
SEARCH_MAX_RESULTS == 10
COVERAGE_MIN_ENTITIES == 6
NEO4J_QUERY_LIMIT == 20
MAX_SCRAPE_TARGETS == 5

Min(a, b) == IF a < b THEN a ELSE b
Max(a, b) == IF a > b THEN a ELSE b

VARIABLES
    pc,               \* position of the current session
    entry,            \* entry point of the current session
    dbEntities,       \* graph store: Entity nodes reachable from the query
    dbRelationships,  \* graph store: RELATES_TO edges among them
    sessions,         \* requests received so far
    neo4j,            \* outcome of the coverage check's graph-store query
    llm,              \* outcome of the coverage check's completion call
    coverage,         \* dict returned by _check_database_coverage
    analysis_result,  \* dict handed to orchestrate_workflow
    scraped_data,     \* dict held by _scrape_and_extract_workflow
    extracted_data,   \* dict held by _scrape_and_extract_workflow
    calls,            \* calls issued to the collaborators in this session
    rounds,           \* search/extract/store rounds completed in this session
    search,           \* loop state of search_post
    exc,              \* exception raised inside the current session
    analysis_data,    \* reply of POST /analyze held by search_post
    result,           \* value returned by the entry point
    npc,              \* name normalisation: position
    nameA, nameB,     \* name normalisation: the two raw names
    keyA, keyB,       \* name normalisation: their normalized keys
    x_pc,             \* extraction round: position in extract_and_analyze
    docs,             \* extraction round: per document, the worker's entity list
    stage,            \* extraction round: per document, the worker's progress
    all_entities,     \* extraction round: records collected from the workers
    unique_entities,  \* extraction round: the canonical entities
    graph,            \* graph store: Entity nodes by name, with their description
    r_pc,             \* relationship deduplication: position
    relationships,    \* relationship deduplication: the records handed in
    unique_relationships, \* relationship deduplication: the records kept
    s_pc,             \* graph store under repeated writes: position
    s_batch,          \* graph store under repeated writes: the batch
    s_nodes,          \* graph store under repeated writes: Entity nodes
    s_edges,          \* graph store under repeated writes: RELATES_TO edges
    s_applied,        \* graph store under repeated writes: writes that succeeded
    s_first,          \* graph store under repeated writes: counts after the first
    rd_pc,            \* extraction round with failures: position in extract_and_analyze
    rd_llm,           \* extraction round with failures: the completion service
    rd_docs,          \* extraction round with failures: the documents handed in
    rd_stage,         \* extraction round with failures: per document, the future
    rd_result,        \* extraction round with failures: per document, the worker's result
    rd_elapsed,       \* extraction round with failures: per document, seconds spent
    rd_entities,      \* extraction round with failures: all_entities
    rd_relationships, \* extraction round with failures: all_relationships
    rd_summaries,     \* extraction round with failures: document_summaries
    rd_unique,        \* extraction round with failures: unique_entities
    rd_unique_rels,   \* extraction round with failures: unique_relationships
    rd_return,        \* extraction round with failures: what the call returned
    sc_pc,            \* scraping: position in scrape_urls
    sc_given,         \* scraping: the urls argument
    sc_extra,         \* scraping: URLs found by the dynamic search
    sc_retries,       \* scraping: max_retries
    sc_urls,          \* scraping: the list that is fetched
    sc_attempt,       \* scraping: per task, attempts made
    sc_fetched,       \* scraping: per task, what the last attempt met
    sc_result,        \* scraping: per task, what the task returned
    sc_return,        \* scraping: what scrape_urls returned
    ck_pc,            \* chunking: position in _deep_process_document
    ck_lines,         \* chunking: the lines of the document's text
    ck_size,          \* chunking: chunk_size
    ck_text,          \* chunking: the cleaned text
    ck_start,         \* chunking: start of _split_into_chunks
    ck_chunks,        \* chunking: chunks of _split_into_chunks
    ck_return,        \* chunking: what _split_into_chunks returned
    sr_pc,            \* scoring: position of the caller
    sr_given,         \* scoring: the entity list as it was before the call
    sr_entities,      \* scoring: the caller's entity list
    sr_relationships, \* scoring: the relationship list
    sr_query,         \* scoring: the query
    sr_return,        \* scoring: what _score_and_rank_entities returned
    lm_max_results,   \* search service: search_engine.max_results
    lm_requests       \* search service: the requests, their progress and limit

orchVars == <<pc, entry, sessions, dbEntities, dbRelationships, neo4j, llm, coverage,
              analysis_result, scraped_data, extracted_data, calls, rounds,
              search, exc, analysis_data, result>>

normVars == <<npc, nameA, nameB, keyA, keyB>>

extVars == <<x_pc, docs, stage, all_entities, unique_entities, graph>>

relVars == <<r_pc, relationships, unique_relationships>>

storeVars == <<s_pc, s_batch, s_nodes, s_edges, s_applied, s_first>>

roundVars == <<rd_pc, rd_llm, rd_docs, rd_stage, rd_result, rd_elapsed,
               rd_entities, rd_relationships, rd_summaries, rd_unique,
               rd_unique_rels, rd_return>>

scrapeVars == <<sc_pc, sc_given, sc_extra, sc_retries, sc_urls, sc_attempt,
                sc_fetched, sc_result, sc_return>>

chunkVars == <<ck_pc, ck_lines, ck_size, ck_text, ck_start, ck_chunks, ck_return>>

scoreVars == <<sr_pc, sr_given, sr_entities, sr_relationships, sr_query, sr_return>>

limitVars == <<lm_max_results, lm_requests>>

nonOrchVars == <<normVars, extVars, relVars, storeVars,
    roundVars, scrapeVars, chunkVars, scoreVars, limitVars>>
nonNormVars == <<orchVars, extVars, relVars, storeVars,
    roundVars, scrapeVars, chunkVars, scoreVars, limitVars>>
nonExtVars == <<orchVars, normVars, relVars, storeVars,
    roundVars, scrapeVars, chunkVars, scoreVars, limitVars>>
nonRelVars == <<orchVars, normVars, extVars, storeVars,
    roundVars, scrapeVars, chunkVars, scoreVars, limitVars>>
nonStoreVars == <<orchVars, normVars, extVars, relVars,
    roundVars, scrapeVars, chunkVars, scoreVars, limitVars>>
nonRoundVars == <<orchVars, normVars, extVars, relVars,
    storeVars, scrapeVars, chunkVars, scoreVars, limitVars>>
nonScrapeVars == <<orchVars, normVars, extVars, relVars,
    storeVars, roundVars, chunkVars, scoreVars, limitVars>>
nonChunkVars == <<orchVars, normVars, extVars, relVars,
    storeVars, roundVars, scrapeVars, scoreVars, limitVars>>
nonScoreVars == <<orchVars, normVars, extVars, relVars,
    storeVars, roundVars, scrapeVars, chunkVars, limitVars>>
nonLimitVars == <<orchVars, normVars, extVars, relVars,
    storeVars, roundVars, scrapeVars, chunkVars, scoreVars>>

vars == <<orchVars, normVars, extVars, relVars, storeVars,
         roundVars, scrapeVars, chunkVars, scoreVars, limitVars>>

None == [none |-> TRUE]
NoCalls == [search |-> 0, scrape |-> 0, extract |-> 0, store |-> 0, llm |-> 0]
NoSearch == [expanded |-> 0, idx |-> 0, total |-> 0]
Entries == {"agent", "analyze", "search_post"}
LlmOutcomes == {"failed", "unparseable", "sufficient", "insufficient"}

HasKey(d, k) == k \in DOMAIN d
Bump(c, k) == [c EXCEPT ![k] = @ + 1]

\* ------------------------------------------------------------------------
\* AnalysisAgent (agents/analysis_agent/agent.py)
\* ------------------------------------------------------------------------

\* _query_neo4j_entities: the matching entities, at most 20; [] on any failure.
query_neo4j_entities(neo4jOk, n) ==
    IF neo4jOk THEN Min(n, NEO4J_QUERY_LIMIT) ELSE 0

\* _check_database_coverage: n entities are in the store, neo4jOk tells
\* whether the store answers, outcome is what the completion call yields.
check_database_coverage(neo4jOk, n, outcome) ==
    LET db_entities_count == query_neo4j_entities(neo4jOk, n) IN
    IF db_entities_count < COVERAGE_MIN_ENTITIES
    THEN [sufficient |-> FALSE,
          missing_topics |-> <<"general", "query">>,
          data |-> 0,
          db_entities_count |-> db_entities_count,
          reason |-> "too few entities"]
    ELSE IF outcome = "failed"
    THEN [sufficient |-> FALSE,
          missing_topics |-> <<"general">>,
          data |-> 0,
          db_entities_count |-> 0,
          error |-> "ollama"]
    ELSE IF outcome = "unparseable"
    THEN [sufficient |-> FALSE,
          missing_topics |-> <<"query">>,
          data |-> 0,
          db_entities_count |-> db_entities_count,
          reasoning |-> "unparseable",
          llm_response |-> "text"]
    ELSE [sufficient |-> (outcome = "sufficient"),
          missing_topics |-> <<>>,
          data |-> IF outcome = "sufficient" THEN db_entities_count ELSE 0,
          db_entities_count |-> db_entities_count,
          reasoning |-> "model",
          llm_response |-> "json"]

\* Whether _check_database_coverage reaches its completion call.
CoverageCallsModel(neo4jOk, n) ==
    query_neo4j_entities(neo4jOk, n) >= COVERAGE_MIN_ENTITIES

\* _identify_scraping_targets: real URLs among the results, else the
\* default financial sources for a financial query; at most five.
identify_scraping_targets(nReal, financial) ==
    IF nReal > 0 THEN Min(nReal, MAX_SCRAPE_TARGETS)
    ELSE IF financial THEN MAX_SCRAPE_TARGETS ELSE 0

GetOr(d, k, default) == IF HasKey(d, k) THEN d[k] ELSE default

\* ------------------------------------------------------------------------
\* POST /analyze (agents/analysis_agent/app.py)
\* ------------------------------------------------------------------------

\* analyze_error_response with the exception's message left out of the body.
analyze_error_response_Mut(e) ==
    [status |-> "error", action |-> "error",
     report |-> <<"analysis failed">>,
     sources |-> <<>>, generated_at |-> "", error |-> e]

\* The except clause of analyze_query: the reply built from the exception.
analyze_error_response(e) ==
    [status |-> "error", action |-> "error",
     report |-> <<"analysis failed", e>>,
     sources |-> <<>>, generated_at |-> "", error |-> e]

\* The reply analyze_query builds from what orchestrate_workflow returned.
analyze_reply(final_result) ==
    [status |-> GetOr(final_result, "status", "success"),
     action |-> GetOr(final_result, "action", "scrape_and_extract"),
     report |-> GetOr(final_result, "report", <<"no report">>),
     sources |-> GetOr(final_result, "sources", <<>>),
     generated_at |-> GetOr(final_result, "generated_at", "")]

\* The exception analyze_query meets between the coverage check and the
\* workflow: the keys it reads from the coverage dict, then the attribute
\* report_generator of the agent, which AnalysisAgent.__init__ never sets.
analyze_query_failure(cov) ==
    IF ~HasKey(cov, "entity_count") THEN "KeyError entity_count"
    ELSE IF ~HasKey(cov, "relationship_count") THEN "KeyError relationship_count"
    ELSE IF ~HasKey(cov, "has_sufficient_data") THEN "KeyError has_sufficient_data"
    ELSE IF cov.has_sufficient_data THEN "AttributeError report_generator"
    ELSE "none"

\* A value returned by the workflow, seen from the entry point of the session.
Finish(r) ==
    IF entry = "search_post"
    THEN /\ pc' = "orchestrate_call"
         /\ analysis_data' = analyze_reply(r)
         /\ result' = result
    ELSE /\ pc' = "done"
         /\ result' = IF entry = "analyze" THEN analyze_reply(r) ELSE r
         /\ analysis_data' = analysis_data

\* An exception leaving the workflow, seen from the entry point of the session.
Abort(e) ==
    /\ exc' = e
    /\ IF entry = "agent"
       THEN pc' = "raised" /\ result' = result /\ analysis_data' = analysis_data
       ELSE IF entry = "analyze"
       THEN pc' = "done" /\ result' = analyze_error_response(e)
            /\ analysis_data' = analysis_data
       ELSE pc' = "orchestrate_call" /\ analysis_data' = analyze_error_response(e)
            /\ result' = result

OrchIdle ==
    /\ pc = "idle"
    /\ entry = "none"
    /\ sessions = 0
    /\ dbEntities = 0
    /\ dbRelationships = 0
    /\ neo4j = "none"
    /\ llm = "none"
    /\ coverage = None
    /\ analysis_result = None
    /\ scraped_data = None
    /\ extracted_data = None
    /\ calls = NoCalls
    /\ rounds = 0
    /\ search = NoSearch
    /\ exc = "none"
    /\ analysis_data = None
    /\ result = None

OrchInit ==
    /\ pc = "start"
    /\ entry \in Entries
    /\ dbEntities \in 0..MaxDbEntities
    /\ dbRelationships \in 0..MaxDbRelationships
    /\ sessions = 1
    /\ neo4j = "none"
    /\ llm = "none"
    /\ coverage = None
    /\ analysis_result = None
    /\ scraped_data = None
    /\ extracted_data = None
    /\ calls = NoCalls
    /\ rounds = 0
    /\ search = NoSearch
    /\ exc = "none"
    /\ analysis_data = None
    /\ result = None

\* analyze_search_results: coverage check, then the decision.
AnalyzeSearchResults ==
    /\ pc = "start" /\ entry = "agent"
    /\ \E neo4jOk \in BOOLEAN, outcome \in LlmOutcomes,
          nReal \in 0..MaxSearchResults, financial \in BOOLEAN :
        LET cov == check_database_coverage(neo4jOk, dbEntities, outcome)
            called == CoverageCallsModel(neo4jOk, dbEntities) IN
        /\ (~called => outcome = "failed")
        /\ coverage' = cov
        /\ neo4j' = IF neo4jOk THEN "ok" ELSE "failed"
        /\ llm' = IF called THEN outcome ELSE "none"
        /\ calls' = IF called THEN Bump(calls, "llm") ELSE calls
        /\ analysis_result' =
             IF cov.sufficient
             THEN [action |-> "generate_report", urls_to_scrape |-> 0]
             ELSE [action |-> "scrape_and_extract",
                   urls_to_scrape |-> identify_scraping_targets(nReal, financial)]
    /\ pc' = "decided"
    /\ UNCHANGED <<entry, sessions, dbEntities, dbRelationships, scraped_data,
                   extracted_data, rounds, search, exc, analysis_data, result>>
    /\ UNCHANGED nonOrchVars

\* orchestrate_workflow with action generate_report: _generate_report.
\* The completion call is not guarded: its failure leaves the workflow.
GenerateReport ==
    /\ pc = "decided" /\ analysis_result.action = "generate_report"
    /\ calls' = Bump(calls, "llm")
    /\ \E ok \in BOOLEAN :
        IF ok
        THEN /\ Finish([status |-> "completed", action |-> "report_generated",
                        report |-> <<"model report">>])
             /\ exc' = exc
        ELSE Abort("ollama")
    /\ UNCHANGED <<entry, sessions, dbEntities, dbRelationships, neo4j, llm, coverage,
                   analysis_result, scraped_data, extracted_data, rounds, search>>
    /\ UNCHANGED nonOrchVars

\* _scrape_and_extract_workflow, step 1: the scraping agent.
Scrape ==
    /\ pc = "decided" /\ analysis_result.action = "scrape_and_extract"
    /\ calls' = Bump(calls, "scrape")
    /\ \E ok \in BOOLEAN, n \in 0..MaxExtracted :
        scraped_data' = IF ok THEN [results |-> n, successful |-> n, failed |-> 0]
                        ELSE [error |-> "scrape", results |-> 0]
    /\ pc' = "extract"
    /\ UNCHANGED <<entry, sessions, dbEntities, dbRelationships, neo4j, llm, coverage,
                   analysis_result, extracted_data, rounds, search, exc,
                   analysis_data, result>>
    /\ UNCHANGED nonOrchVars

\* What extract_and_analyze returns for documents documents, of which
\* processed gave a result, with e entities and r relationships found.
extraction_result(documents, processed, e, r) ==
    IF documents = 0
    THEN [status |-> "no_data", entities |-> 0, summary |-> "no data"]
    ELSE IF e = 0
    THEN [status |-> "empty", entities |-> 0, relationships |-> 0,
          summary |-> "nothing extracted"]
    ELSE [status |-> "success", entities |-> e, relationships |-> r,
          overall_summary |-> "summary",
          statistics |-> [total_entities |-> e, total_relationships |-> r,
                          documents_processed |-> processed]]

\* _scrape_and_extract_workflow, step 2: the extraction agent.
Extract ==
    /\ pc = "extract"
    /\ calls' = Bump(calls, "extract")
    /\ \E ok \in BOOLEAN, e \in 0..MaxExtracted, r \in 0..MaxExtracted,
          processed \in 0..scraped_data.results :
        /\ (e = 0 => r = 0 /\ processed = 0)
        /\ (e > 0 => processed > 0)
        /\ (~ok => e = 0)
        /\ extracted_data' =
            IF ok
            THEN extraction_result(scraped_data.results, processed, e, r)
            ELSE [error |-> "extract", entities |-> 0, relationships |-> 0]
    /\ pc' = "store"
    /\ UNCHANGED <<entry, sessions, dbEntities, dbRelationships, neo4j, llm, coverage,
                   analysis_result, scraped_data, rounds, search, exc,
                   analysis_data, result>>
    /\ UNCHANGED nonOrchVars

\* _scrape_and_extract_workflow, step 3: _store_to_neo4j.  MERGE creates a
\* node or an edge only for a key the store does not hold yet.
Store ==
    /\ pc = "store"
    /\ calls' = Bump(calls, "store")
    /\ rounds' = rounds + 1
    /\ \E ok \in BOOLEAN,
          freshE \in 0..GetOr(extracted_data, "entities", 0),
          freshR \in 0..GetOr(extracted_data, "relationships", 0) :
        /\ (~ok => freshE = 0 /\ freshR = 0)
        /\ dbEntities + freshE <= MaxDbEntities
        /\ dbRelationships + freshR <= MaxDbRelationships
        /\ dbEntities' = dbEntities + freshE
        /\ dbRelationships' = dbRelationships + freshR
    /\ pc' = "final_report"
    /\ UNCHANGED <<entry, sessions, neo4j, llm, coverage, analysis_result, scraped_data,
                   extracted_data, search, exc, analysis_data, result>>
    /\ UNCHANGED nonOrchVars

\* _scrape_and_extract_workflow, step 4: _generate_final_report and return.
FinalReport ==
    /\ pc = "final_report"
    /\ calls' = Bump(calls, "llm")
    /\ \E ok \in BOOLEAN :
        Finish([status |-> "completed",
                action |-> "data_collected_and_stored",
                scraping_stats |->
                    [successful |-> GetOr(scraped_data, "successful", 0),
                     failed |-> GetOr(scraped_data, "failed", 0)],
                extraction_stats |->
                    [entities |-> GetOr(extracted_data, "entities", 0),
                     relationships |-> GetOr(extracted_data, "relationships", 0)],
                report |-> IF ok THEN <<"model report">>
                           ELSE <<"findings", GetOr(extracted_data, "overall_summary", "")>>])
    /\ UNCHANGED <<entry, sessions, dbEntities, dbRelationships, neo4j, llm, coverage,
                   analysis_result, scraped_data, extracted_data, rounds,
                   search, exc>>
    /\ UNCHANGED nonOrchVars

\* analyze_query: the coverage check, then either the exception raised by
\* the handler's own reads (caught by its except clause) or the workflow.
AnalyzeQuery ==
    /\ pc = "start" /\ entry = "analyze"
    /\ \E neo4jOk \in BOOLEAN, outcome \in LlmOutcomes :
        LET cov == check_database_coverage(neo4jOk, dbEntities, outcome)
            called == CoverageCallsModel(neo4jOk, dbEntities)
            e == analyze_query_failure(cov) IN
        /\ (~called => outcome = "failed")
        /\ coverage' = cov
        /\ neo4j' = IF neo4jOk THEN "ok" ELSE "failed"
        /\ llm' = IF called THEN outcome ELSE "none"
        /\ calls' = IF called THEN Bump(calls, "llm") ELSE calls
        /\ IF e # "none"
           THEN Abort(e) /\ analysis_result' = analysis_result
           ELSE /\ pc' = "decided"
                /\ analysis_result' = [action |-> "scrape_and_extract",
                                       urls_to_scrape |-> 0]
                /\ UNCHANGED <<exc, analysis_data, result>>
    /\ UNCHANGED <<entry, sessions, dbEntities, dbRelationships, scraped_data,
                   extracted_data, rounds, search>>
    /\ UNCHANGED nonOrchVars

\* ------------------------------------------------------------------------
\* POST /search (agents/web_search_agent/app.py)
\* ------------------------------------------------------------------------

\* search_post, step 1: query expansion; expand returns [] when it fails.
SearchPostExpand ==
    /\ pc = "start" /\ entry = "search_post"
    /\ calls' = Bump(calls, "llm")
    /\ \E n \in 0..MaxExpanded :
        search' = [expanded |-> n, idx |-> 0, total |-> 0]
    /\ pc' = "searching"
    /\ UNCHANGED <<entry, sessions, dbEntities, dbRelationships, neo4j, llm, coverage,
                   analysis_result, scraped_data, extracted_data, rounds,
                   exc, analysis_data, result>>
    /\ UNCHANGED nonOrchVars

\* search_post, step 2: one pass of the loop over all_queries.  hits is the
\* number of results of this query whose url was not seen before.
SearchPostSearch ==
    /\ pc = "searching"
    /\ calls' = Bump(calls, "search")
    /\ \E hits \in 0..MaxHits :
        LET total == search.total + hits
            idx == search.idx + 1 IN
        /\ search' = [search EXCEPT !.idx = idx, !.total = total]
        /\ pc' = IF total >= SEARCH_MAX_RESULTS \/ idx = search.expanded + 1
                 THEN "analyze_call" ELSE "searching"
    /\ UNCHANGED <<entry, sessions, dbEntities, dbRelationships, neo4j, llm, coverage,
                   analysis_result, scraped_data, extracted_data, rounds,
                   exc, analysis_data, result>>
    /\ UNCHANGED nonOrchVars

\* The search_data dict of search_post.
search_data(s) ==
    [status |-> "success", total_queries |-> s.expanded + 1,
     total_results |-> Min(s.total, SEARCH_MAX_RESULTS)]

\* search_post, step 3: POST /analyze.  Either the request itself fails, or
\* analyze_query runs in the analysis agent.
SearchPostAnalyze ==
    /\ pc = "analyze_call"
    /\ \E reached \in BOOLEAN, neo4jOk \in BOOLEAN, outcome \in LlmOutcomes :
        IF ~reached
        THEN /\ neo4jOk /\ outcome = "failed"
             /\ pc' = "done"
             /\ result' = [status |-> "partial_success",
                           search_results |-> search_data(search),
                           error |-> "Analysis agent unavailable"]
             /\ UNCHANGED <<coverage, neo4j, llm, calls, analysis_result, exc,
                            analysis_data>>
        ELSE LET cov == check_database_coverage(neo4jOk, dbEntities, outcome)
                 called == CoverageCallsModel(neo4jOk, dbEntities)
                 e == analyze_query_failure(cov) IN
             /\ (~called => outcome = "failed")
             /\ coverage' = cov
             /\ neo4j' = IF neo4jOk THEN "ok" ELSE "failed"
             /\ llm' = IF called THEN outcome ELSE "none"
             /\ calls' = IF called THEN Bump(calls, "llm") ELSE calls
             /\ IF e # "none"
                THEN Abort(e) /\ analysis_result' = analysis_result
                ELSE /\ pc' = "decided"
                     /\ analysis_result' = [action |-> "scrape_and_extract",
                                            urls_to_scrape |-> 0]
                     /\ UNCHANGED <<exc, analysis_data, result>>
    /\ UNCHANGED <<entry, sessions, dbEntities, dbRelationships, scraped_data,
                   extracted_data, rounds, search>>
    /\ UNCHANGED nonOrchVars

\* search_post, step 4: POST /orchestrate with the "details" of the analysis
\* reply, and the reply of search_post.  The outcome of the request is the
\* framework's: a reply, an error status, or a failed request.
SearchPostOrchestrate ==
    /\ pc = "orchestrate_call"
    /\ \E http \in {"ok", "not_ok", "request_exception"} :
        result' =
            IF http = "ok"
            THEN [status |-> "success", search_results |-> search_data(search),
                  analysis |-> analysis_data]
            ELSE IF http = "not_ok"
            THEN [status |-> "partial_success",
                  search_results |-> search_data(search),
                  analysis |-> analysis_data, error |-> "Orchestration failed"]
            ELSE [status |-> "partial_success",
                  search_results |-> search_data(search),
                  error |-> "Analysis agent unavailable"]
    /\ pc' = "done"
    /\ UNCHANGED <<entry, sessions, dbEntities, dbRelationships, neo4j, llm, coverage,
                   analysis_result, scraped_data, extracted_data, calls,
                   rounds, search, exc, analysis_data>>
    /\ UNCHANGED nonOrchVars

\* The next request arrives: a new session over the same graph store.
NewSession ==
    /\ pc \in {"done", "raised"}
    /\ sessions < MaxSessions
    /\ sessions' = sessions + 1
    /\ pc' = "start"
    /\ entry' \in Entries
    /\ neo4j' = "none"
    /\ llm' = "none"
    /\ coverage' = None
    /\ analysis_result' = None
    /\ scraped_data' = None
    /\ extracted_data' = None
    /\ calls' = NoCalls
    /\ rounds' = 0
    /\ search' = NoSearch
    /\ exc' = "none"
    /\ analysis_data' = None
    /\ result' = None
    /\ UNCHANGED <<dbEntities, dbRelationships>>
    /\ UNCHANGED nonOrchVars

OrchNext ==
    \/ AnalyzeSearchResults
    \/ GenerateReport
    \/ Scrape
    \/ Extract
    \/ Store
    \/ FinalReport
    \/ AnalyzeQuery
    \/ SearchPostExpand
    \/ SearchPostSearch
    \/ SearchPostAnalyze
    \/ SearchPostOrchestrate
    \/ NewSession

\* ------------------------------------------------------------------------
\* Properties of the orchestration (specification Spec)
\* ------------------------------------------------------------------------

Range(f) == {f[i] : i \in DOMAIN f}
Terminal == pc \in {"done", "raised"}

\* C1: budget termination.  When the verdict is never sufficient, a session
\* that ends has run exactly MAX_ITERATIONS search/extract/store rounds.
C1_BudgetTermination ==
    (Terminal /\ coverage # None /\ ~coverage.sufficient
              /\ analysis_result # None
              /\ analysis_result.action = "scrape_and_extract")
        => rounds = MAX_ITERATIONS

\* C2: orchestrate_workflow is never left by an exception of a downstream
\* stage, on the scrape_and_extract path and on the generate_report path.
C2_WorkflowNeverAborted ==
    entry = "agent" => pc # "raised"

\* C3: POST /analyze never propagates a failure.  Its reply always carries a
\* status and a report body, and when an exception occurred the status is
\* "error" and the report body contains the exception's message.
C3_AnalyzeNeverPropagates ==
    entry = "analyze" =>
        /\ pc # "raised"
        /\ pc = "done" =>
            /\ HasKey(result, "status") /\ HasKey(result, "report")
            /\ exc # "none" =>
                (result.status = "error" /\ exc \in Range(result.report))

C3_Witness ==
    /\ entry = "analyze" /\ pc = "done" /\ exc # "none"
    /\ result.status = "error" /\ exc \in Range(result.report)

\* C4: the coverage check judges the existing graph data sufficient exactly
\* when there are at least 3 entities or at least 2 relationships.
C4_CoverageRule ==
    (pc = "decided" /\ entry = "agent" /\ neo4j = "ok")
        => (coverage.sufficient <=> (dbEntities >= 3 \/ dbRelationships >= 2))

\* C5: when the completion call fails or its output cannot be parsed, the
\* verdict is the count rule: sufficient exactly when there are at least
\* MIN_ENTITIES_FALLBACK entities and MIN_RELATIONSHIPS_FALLBACK relationships.
C5_EvaluatorFallback ==
    (pc = "decided" /\ entry = "agent" /\ neo4j = "ok"
                    /\ llm \in {"failed", "unparseable"})
        => (coverage.sufficient <=>
                (dbEntities >= MIN_ENTITIES_FALLBACK
                 /\ dbRelationships >= MIN_RELATIONSHIPS_FALLBACK))

\* C6: when the coverage check is sufficient, no search-provider call, no
\* scrape call, no extraction call and no graph-store write is issued in the
\* session.
C6_ShortCircuit ==
    (coverage # None /\ coverage.sufficient)
        => (calls.search = 0 /\ calls.scrape = 0
            /\ calls.extract = 0 /\ calls.store = 0)

\* ------------------------------------------------------------------------
\* DataExtractionAgent._normalize_entity_name
\* (agents/data_extraction_agent/agent.py)
\* Names are sequences of one-character strings.
\* ------------------------------------------------------------------------

LowerLetters == <<"a", "b", "c", "d", "e", "f", "g", "h", "i", "j", "k", "l", "m",
                  "n", "o", "p", "q", "r", "s", "t", "u", "v", "w", "x", "y", "z">>
UpperLetters == <<"A", "B", "C", "D", "E", "F", "G", "H", "I", "J", "K", "L", "M",
                  "N", "O", "P", "Q", "R", "S", "T", "U", "V", "W", "X", "Y", "Z">>
Digits == {"0", "1", "2", "3", "4", "5", "6", "7", "8", "9"}

SeqRange(f) == {f[i] : i \in DOMAIN f}

\* str.lower and str.upper, one character at a time.
ToLower(c) ==
    IF c \in SeqRange(UpperLetters)
    THEN LowerLetters[CHOOSE i \in DOMAIN UpperLetters : UpperLetters[i] = c]
    ELSE c
ToUpper(c) ==
    IF c \in SeqRange(LowerLetters)
    THEN UpperLetters[CHOOSE i \in DOMAIN LowerLetters : LowerLetters[i] = c]
    ELSE c
Lower(s) == [i \in 1..Len(s) |-> ToLower(s[i])]
Upper(s) == [i \in 1..Len(s) |-> ToUpper(s[i])]

\* The character classes \w and \s of the regular expressions.
IsWord(c) == c \in SeqRange(LowerLetters) \cup SeqRange(UpperLetters) \cup Digits \cup {"_"}
IsSpace(c) == c = " "
KeepWordOrSpace(c) == IsWord(c) \/ IsSpace(c)
KeepNonSpace(c) == ~IsSpace(c)

\* str.endswith
EndsWith(s, suffix) ==
    /\ Len(suffix) <= Len(s)
    /\ SubSeq(s, Len(s) - Len(suffix) + 1, Len(s)) = suffix

\* str.strip
RECURSIVE LStrip(_)
LStrip(s) == IF s # <<>> /\ IsSpace(Head(s)) THEN LStrip(Tail(s)) ELSE s
RECURSIVE RStrip(_)
RStrip(s) == IF s # <<>> /\ IsSpace(s[Len(s)]) THEN RStrip(SubSeq(s, 1, Len(s) - 1)) ELSE s
Strip(s) == RStrip(LStrip(s))

\* The suffixes list, in the order the loop visits it.
suffixes == << <<"i", "n", "c">>,
               <<"l", "t", "d">>,
               <<"l", "l", "c">>,
               <<"c", "o", "r", "p">>,
               <<"c", "o", "r", "p", "o", "r", "a", "t", "i", "o", "n">>,
               <<"c", "o", "m", "p", "a", "n", "y">>,
               <<"c", "o">> >>

\* The loop over suffixes: each suffix is tried once, in list order, on what
\* the earlier suffixes left.
RECURSIVE StripSuffixes(_, _)
StripSuffixes(normalized, i) ==
    IF i > Len(suffixes) THEN normalized
    ELSE IF EndsWith(normalized, suffixes[i])
    THEN StripSuffixes(SubSeq(normalized, 1, Len(normalized) - Len(suffixes[i])), i + 1)
    ELSE StripSuffixes(normalized, i + 1)

normalize_entity_name(name) ==
    LET noPunct == SelectSeq(Lower(name), KeepWordOrSpace)
        noSpace == SelectSeq(noPunct, KeepNonSpace)
    IN Strip(StripSuffixes(noSpace, 1))

\* The raw names the normalisation is exercised on: a stem, in lower or upper
\* case, followed by punctuation or whitespace, or by a separator, one of the
\* corporate suffixes and a full stop.
Stems == { <<"a", "b">>, <<"c", "i", "s", "c", "o">>, <<"z", "i", "n", "c">> }
Trailers == { <<>>, <<".">>, <<" ">> }
Separators == { <<" ">>, <<",", " ">> }
Decorate(stem, upper, sep, k) ==
    LET plain == IF k = 0 THEN stem \o sep
                 ELSE stem \o sep \o suffixes[k] \o <<".">>
    IN IF upper THEN Upper(plain) ELSE plain
Variants(stem) ==
    {Decorate(stem, u, t, 0) : u \in BOOLEAN, t \in Trailers}
    \cup {Decorate(stem, x[1], x[2], x[3]) :
             x \in BOOLEAN \X Separators \X (1..Len(suffixes))}
\* The stem a generated name was built from.
StemOf(name) == CHOOSE st \in Stems : name \in Variants(st)
AllVariants == UNION {Variants(st) : st \in Stems}

NormInit ==
    /\ npc = "input"
    /\ nameA \in AllVariants
    /\ nameB \in AllVariants
    /\ keyA = <<>>
    /\ keyB = <<>>

NormIdle ==
    /\ npc = "idle"
    /\ nameA = <<>> /\ nameB = <<>> /\ keyA = <<>> /\ keyB = <<>>

\* _advanced_deduplicate_entities computes the key of each name it meets.
Normalize ==
    /\ npc = "input"
    /\ keyA' = normalize_entity_name(Strip(nameA))
    /\ keyB' = normalize_entity_name(Strip(nameB))
    /\ npc' = "normalized"
    /\ UNCHANGED <<nameA, nameB>>
    /\ UNCHANGED nonNormVars

NormNext == Normalize


\* C7: normalization collapse.  Two names that differ only by letter case,
\* punctuation, whitespace or a known corporate suffix have the same key,
\* and names with the same key differ in nothing but those respects.
C7_NormalizationCollapse ==
    npc = "normalized" => ((StemOf(nameA) = StemOf(nameB)) <=> (keyA = keyB))

\* C29: a key is a fixed point of the normalisation: normalising the key of
\* a name gives that key again.
C29_NormalizationIdempotent ==
    npc = "normalized" =>
        /\ normalize_entity_name(keyA) = keyA
        /\ normalize_entity_name(keyB) = keyB

\* The statistics a finished workflow returns: the two stats dicts of its
\* result, and the statistics of the extraction reply.
ShowsDocumentsProcessed(n) ==
    \/ /\ HasKey(result, "scraping_stats")
       /\ HasKey(result.scraping_stats, "documents_processed")
       /\ result.scraping_stats.documents_processed = n
    \/ /\ HasKey(result, "extraction_stats")
       /\ HasKey(result.extraction_stats, "documents_processed")
       /\ result.extraction_stats.documents_processed = n
    \/ /\ HasKey(extracted_data, "statistics")
       /\ extracted_data.statistics.documents_processed = n

\* C14: a workflow whose scraping step returned no document ends with a
\* result that is not an error and whose statistics show
\* documents_processed = 0.
C14_ZeroDocuments ==
    (pc = "done" /\ entry = "agent" /\ scraped_data # None /\ scraped_data.results = 0)
        => (result.status # "error" /\ ShowsDocumentsProcessed(0))

\* ------------------------------------------------------------------------
\* DataExtractionAgent.extract_and_analyze and the two graph-store writers
\* (agents/data_extraction_agent/agent.py, neo4j_storage.py,
\*  agents/analysis_agent/agent.py)
\* An entity is a record; source_url stands for the (title, url) pair of the
\* document, and an absent key of the Python dict is the empty value.
\* ------------------------------------------------------------------------

MaxRecs == 2
EXPANSION_MIN == 5
MAX_ENHANCED == 10

Docs == {1, 2}
DocUrl(d) == IF d = 1 THEN "doc1" ELSE "doc2"

Entity(name, description, importance, url) ==
    [name |-> name, description |-> description, importance |-> importance,
     source_url |-> url, sources |-> <<>>, key_facts |-> <<>>,
     normalized_name |-> <<>>]

\* What the basic pass can find in a document: three spellings of one
\* company, another company, and a name too short to be kept.
Templates ==
    { [name |-> <<"A", "b">>, description |-> "dd", importance |-> "high"],
      [name |-> <<"a", "b", " ", "i", "n", "c", ".">>, description |-> "d",
       importance |-> "low"],
      [name |-> <<"A", "B">>, description |-> "ddd", importance |-> "medium"],
      [name |-> <<"c", "d">>, description |-> "", importance |-> "medium"],
      [name |-> <<"x">>, description |-> "d", importance |-> "low"] }

SeqsUpTo(S, n) == UNION {[1..k -> S] : k \in 0..n}

\* EXPANSION_MIN further entities with keys of their own.
Fillers ==
    [i \in 1..EXPANSION_MIN |->
        [name |-> <<"f", CHOOSE c \in Digits : c = ToString(i)>>,
         description |-> "d", importance |-> "medium"]]

FromTemplates(ts, d) ==
    [i \in 1..Len(ts) |->
        Entity(ts[i].name, ts[i].description, ts[i].importance, DocUrl(d))]

EmptyGraph == [n \in {} |-> ""]
EarlierGraph == [n \in {<<"A", "b">>} |-> "dddd"]

ExtIdle ==
    /\ x_pc = "idle"
    /\ docs = <<>>
    /\ stage = <<>>
    /\ all_entities = <<>>
    /\ unique_entities = <<>>
    /\ graph = EmptyGraph

\* The state when the workers have run the basic pass on their documents.
ExtInit ==
    /\ x_pc = "workers"
    /\ \E t1 \in SeqsUpTo(Templates, MaxRecs), fill \in BOOLEAN :
       \E t2 \in {t1, <<>>} \cup {<<t>> : t \in Templates} :
        docs = [d \in Docs |->
                    IF d = 1
                    THEN FromTemplates(IF fill THEN t1 \o Fillers ELSE t1, 1)
                    ELSE FromTemplates(t2, 2)]
    /\ stage = [d \in Docs |-> "extracted"]
    /\ all_entities = <<>>
    /\ unique_entities = <<>>
    /\ graph \in {EmptyGraph, EarlierGraph}

\* _enhance_entity_context: response is what the completion call yields for
\* the entities of importance high.  Every entity whose name is in the
\* answer takes the answer's description, key facts and mentions.
enhance_entity_context(entities, response) ==
    LET important == SelectSeq(entities, LAMBDA e : e.importance = "high")
        asked == {important[i].name : i \in 1..Min(Len(important), MAX_ENHANCED)}
    IN IF asked = {} \/ response = "failed" THEN entities
       ELSE [i \in 1..Len(entities) |->
               IF entities[i].name \in asked
               THEN [entities[i] EXCEPT
                       !.description =
                           IF response = "short" THEN "e"
                           ELSE IF response = "long" THEN "eeee"
                           ELSE @,
                       !.key_facts = <<"fact">>]
               ELSE entities[i]]

EnhanceResponses == {"failed", "short", "long", "no_description"}

\* _deep_process_document, from the context-enrichment pass to its return.
DeepProcessDocument(d) ==
    /\ x_pc = "workers" /\ stage[d] = "extracted"
    /\ \E response \in EnhanceResponses :
        docs' = [docs EXCEPT ![d] = enhance_entity_context(docs[d], response)]
    /\ stage' = [stage EXCEPT ![d] = "processed"]
    /\ UNCHANGED <<x_pc, all_entities, unique_entities, graph>>
    /\ UNCHANGED nonExtVars

\* extract_and_analyze, the as_completed loop: the result of a finished
\* worker is appended to the candidate set.
CollectDocument(d) ==
    /\ x_pc = "workers" /\ stage[d] = "processed"
    /\ all_entities' = all_entities \o docs[d]
    /\ stage' = [stage EXCEPT ![d] = "collected"]
    /\ UNCHANGED <<x_pc, docs, unique_entities, graph>>
    /\ UNCHANGED nonExtVars

\* The name test of _advanced_deduplicate_entities.
Usable(e) == Len(Strip(GetOr(e, "name", <<>>))) >= 2
KeyOf(e) == normalize_entity_name(Strip(GetOr(e, "name", <<>>)))

\* The merge branch of _advanced_deduplicate_entities with the sources of the
\* existing entity left as they are.
merge_entity_Mut(existing, e) ==
    [existing EXCEPT
        !.description = IF Len(e.description) > Len(@) THEN e.description ELSE @,
        !.key_facts = @ \o e.key_facts,
        !.importance = IF e.importance = "high" THEN "high" ELSE @]

\* The merge branch of _advanced_deduplicate_entities.
merge_entity(existing, e) ==
    [existing EXCEPT
        !.description = IF Len(e.description) > Len(@) THEN e.description ELSE @,
        !.sources = Append(@, e.source_url),
        !.key_facts = @ \o e.key_facts,
        !.importance = IF e.importance = "high" THEN "high" ELSE @]

\* The new-entity branch of _advanced_deduplicate_entities.
new_entity(e, normalized) ==
    [e EXCEPT !.normalized_name = normalized, !.sources = <<e.source_url>>]

\* entity_map after the first i - 1 entities is acc, in insertion order.
RECURSIVE DeduplicateFrom(_, _, _)
DeduplicateFrom(entities, i, acc) ==
    IF i > Len(entities) THEN acc
    ELSE LET e == entities[i] IN
         IF ~Usable(e) THEN DeduplicateFrom(entities, i + 1, acc)
         ELSE LET normalized == KeyOf(e)
                  hit == {j \in 1..Len(acc) : acc[j].normalized_name = normalized}
              IN IF hit # {}
                 THEN LET j == CHOOSE k \in hit : TRUE IN
                      DeduplicateFrom(entities, i + 1,
                          [acc EXCEPT ![j] = merge_entity(acc[j], e)])
                 ELSE DeduplicateFrom(entities, i + 1,
                          Append(acc, new_entity(e, normalized)))

advanced_deduplicate_entities(entities) == DeduplicateFrom(entities, 1, <<>>)

AllCollected == \A d \in Docs : stage[d] = "collected"

\* extract_and_analyze: the first deduplication pass, or the early return
\* when the workers produced nothing.
Deduplicate ==
    /\ x_pc = "workers" /\ AllCollected
    /\ IF all_entities = <<>>
       THEN x_pc' = "returned" /\ unique_entities' = <<>>
       ELSE /\ unique_entities' = advanced_deduplicate_entities(all_entities)
            /\ x_pc' = "deduplicated"
    /\ UNCHANGED <<docs, stage, all_entities, graph>>
    /\ UNCHANGED nonExtVars

\* _expand_entities: inferred is what the completion call proposes; only
\* proposals of confidence high or medium are kept.
Inferred(name, confidence) ==
    [Entity(name, "why", "none", "") EXCEPT !.key_facts = <<confidence>>]
expand_entities(unique, proposals) ==
    LET seeds == SelectSeq(unique, LAMBDA e : e.importance = "high")
    IN IF seeds = <<>> THEN <<>>
       ELSE SelectSeq(proposals, LAMBDA e : e.key_facts[1] \in {"high", "medium"})

Proposals ==
    { <<>>,
      <<Inferred(<<"A", "b">>, "high")>>,
      <<Inferred(<<"z", "z">>, "medium")>>,
      <<Inferred(<<"z", "z">>, "low")>> }

\* extract_and_analyze: entity expansion, with more than EXPANSION_MIN entities.
ExpandEntities ==
    /\ x_pc = "deduplicated" /\ Len(unique_entities) > EXPANSION_MIN
    /\ \E proposals \in Proposals :
        unique_entities' = unique_entities \o expand_entities(unique_entities, proposals)
    /\ x_pc' = "expanded"
    /\ UNCHANGED <<docs, stage, all_entities, graph>>
    /\ UNCHANGED nonExtVars

\* extract_and_analyze: the second deduplication pass.
DeduplicateAgain ==
    /\ x_pc = "expanded"
    /\ unique_entities' = advanced_deduplicate_entities(unique_entities)
    /\ x_pc' = "merged"
    /\ UNCHANGED <<docs, stage, all_entities, graph>>
    /\ UNCHANGED nonExtVars

\* MERGE (e:Entity {name}) of Neo4jStorage.store_extraction_results: the
\* description of an existing node is replaced by a longer one only.
RECURSIVE StoreEntitiesFrom(_, _, _)
StoreEntitiesFrom(g, entities, i) ==
    IF i > Len(entities) THEN g
    ELSE LET e == entities[i]
             g2 == [n \in DOMAIN g \cup {e.name} |->
                      IF n # e.name THEN g[n]
                      ELSE IF n \notin DOMAIN g THEN e.description
                      ELSE IF Len(e.description) > Len(g[n]) THEN e.description
                      ELSE g[n]]
         IN StoreEntitiesFrom(g2, entities, i + 1)

\* MERGE (e:Entity {name}) SET ... of AnalysisAgent._store_to_neo4j.
RECURSIVE SetEntitiesFrom(_, _, _)
SetEntitiesFrom(g, entities, i) ==
    IF i > Len(entities) THEN g
    ELSE LET e == entities[i]
             g2 == [n \in DOMAIN g \cup {e.name} |->
                      IF n # e.name THEN g[n] ELSE e.description]
         IN SetEntitiesFrom(g2, entities, i + 1)

ReadyToStore ==
    \/ x_pc = "merged"
    \/ x_pc = "deduplicated" /\ Len(unique_entities) <= EXPANSION_MIN

\* POST /extract: the result of extract_and_analyze is written by
\* Neo4jStorage.store_extraction_results, unless the store is not connected
\* or the session fails.
StoreExtractionResults ==
    /\ ReadyToStore
    /\ \E ok \in BOOLEAN :
        graph' = IF ok THEN StoreEntitiesFrom(graph, unique_entities, 1) ELSE graph
    /\ x_pc' = "extracted"
    /\ UNCHANGED <<docs, stage, all_entities, unique_entities>>
    /\ UNCHANGED nonExtVars

\* _scrape_and_extract_workflow: the entities of the reply are written again
\* by AnalysisAgent._store_to_neo4j, unless the store fails.
StoreToNeo4j ==
    /\ x_pc = "extracted"
    /\ \E ok \in BOOLEAN :
        graph' = IF ok THEN SetEntitiesFrom(graph, unique_entities, 1) ELSE graph
    /\ x_pc' = "stored"
    /\ UNCHANGED <<docs, stage, all_entities, unique_entities>>
    /\ UNCHANGED nonExtVars

ExtNext ==
    \/ \E d \in Docs : DeepProcessDocument(d)
    \/ \E d \in Docs : CollectDocument(d)
    \/ Deduplicate
    \/ ExpandEntities
    \/ DeduplicateAgain
    \/ StoreExtractionResults
    \/ StoreToNeo4j


\* ------------------------------------------------------------------------
\* Properties of the extraction round
\* ------------------------------------------------------------------------

Keys(entities) == {KeyOf(entities[i]) : i \in {j \in 1..Len(entities) : Usable(entities[j])}}
Records(entities, key) ==
    Cardinality({i \in 1..Len(entities) : Usable(entities[i]) /\ KeyOf(entities[i]) = key})
SameRecords(a, b) ==
    /\ Len(a) = Len(b)
    /\ \A i \in 1..Len(a) : [a[i] EXCEPT !.source_url = ""] = [b[i] EXCEPT !.source_url = ""]
Canonical(entities) == {i \in 1..Len(entities) : entities[i].normalized_name # <<>>}
AfterFirstPass == x_pc = "deduplicated"

\* C8: after the first deduplication pass there is exactly one canonical
\* entity for each normalized key of the collected records with a usable
\* name, and its sources list has one entry for each of those records; when
\* the second document is identical to the first, the canonical entities are
\* as many as for the first document alone and each sources list is longer
\* by the number of records the second document added to it.
C8_OneEntityPerKey ==
    AfterFirstPass =>
        /\ \A i, j \in 1..Len(unique_entities) :
              unique_entities[i].normalized_name = unique_entities[j].normalized_name
                  => i = j
        /\ {unique_entities[i].normalized_name : i \in 1..Len(unique_entities)}
              = Keys(all_entities)
        /\ \A i \in 1..Len(unique_entities) :
              Len(unique_entities[i].sources)
                  = Records(all_entities, unique_entities[i].normalized_name)
        /\ SameRecords(docs[1], docs[2]) =>
              LET alone == advanced_deduplicate_entities(docs[1]) IN
              /\ Len(unique_entities) = Len(alone)
              /\ \A i \in 1..Len(unique_entities) : \E k \in 1..Len(alone) :
                    /\ alone[k].normalized_name = unique_entities[i].normalized_name
                    /\ Len(unique_entities[i].sources)
                          = Len(alone[k].sources)
                              + Records(docs[2], unique_entities[i].normalized_name)

C8_Witness ==
    /\ AfterFirstPass
    /\ SameRecords(docs[1], docs[2])
    /\ Len(unique_entities) = 1
    /\ Len(all_entities) = 4
    /\ Len(unique_entities[1].sources) = 4

Rank(importance) ==
    CASE importance = "high" -> 3 [] importance = "medium" -> 2 [] OTHER -> 1

\* C20: after the first deduplication pass, the importance of every
\* canonical entity is the highest importance, under high > medium > low,
\* among the collected records with its key.
C20_ImportancePromoted ==
    AfterFirstPass =>
        \A i \in 1..Len(unique_entities) :
            \A j \in 1..Len(all_entities) :
                (Usable(all_entities[j])
                    /\ KeyOf(all_entities[j]) = unique_entities[i].normalized_name)
                  => Rank(unique_entities[i].importance)
                        >= Rank(all_entities[j].importance)

\* C9: once the first deduplication pass has run, every canonical entity
\* lists every document that contributed a usable record with its key, and
\* goes on doing so after entity expansion and the second pass.
C9_SourcesNeverShrink ==
    x_pc \in {"deduplicated", "expanded", "merged", "extracted", "stored"} =>
        \A i \in Canonical(unique_entities) : \A d \in Docs :
            Records(docs[d], unique_entities[i].normalized_name) > 0
                => DocUrl(d) \in Range(unique_entities[i].sources)

GraphOnlyGrows ==
    \A n \in DOMAIN graph \cap DOMAIN graph' :
        graph'[n] # graph[n] => Len(graph'[n]) > Len(graph[n])
EnrichmentOnlyGrows ==
    \A d \in Docs : \A i \in 1..Len(docs[d]) :
        docs'[d][i].description # docs[d][i].description
            => Len(docs'[d][i].description) > Len(docs[d][i].description)
MergeOnlyGrows ==
    x_pc' \in {"deduplicated", "merged"} =>
        LET input == IF x_pc = "workers" THEN all_entities ELSE unique_entities IN
        \A i \in 1..Len(unique_entities') : \A j \in 1..Len(input) :
            (Usable(input[j]) /\ KeyOf(input[j]) = unique_entities'[i].normalized_name)
                => Len(unique_entities'[i].description) >= Len(input[j].description)

\* C10: no step replaces a description by one that is not strictly longer:
\* not the merge of a deduplication pass, not the context enrichment of a
\* worker, and not an upsert of either writer into the graph store.
C10_DescriptionOnlyGrows ==
    [][MergeOnlyGrows /\ EnrichmentOnlyGrows /\ GraphOnlyGrows]_vars

\* ------------------------------------------------------------------------
\* DataExtractionAgent._advanced_deduplicate_relationships
\* (agents/data_extraction_agent/agent.py)
\* A relation is a sequence of characters, like a name.  The six relations
\* of reverse_map are written by their English glosses: lead / ledby,
\* invest / investedby, acquire / acquiredby, found / foundedby,
\* use / usedby, develop / developedby.
\* ------------------------------------------------------------------------

MaxRels == 3

lead == <<"l", "e", "a", "d">>
invest == <<"i", "n", "v", "e", "s", "t">>
acquire == <<"a", "c", "q", "u", "i", "r", "e">>
found == <<"f", "o", "u", "n", "d">>
use == <<"u", "s", "e">>
develop == <<"d", "e", "v", "e", "l", "o", "p">>
competes == <<"v", "s">>

Forward == {lead, invest, acquire, found, use, develop}
Passive(relation) ==
    IF relation = lead THEN <<"l", "e", "d", "b", "y">>
    ELSE IF relation[Len(relation)] = "e" THEN relation \o <<"d", "b", "y">>
    ELSE relation \o <<"e", "d", "b", "y">>

reverse_map == [relation \in Forward |-> Passive(relation)]

\* _reverse_relation with a mirror key that no record has.
reverse_relation_Mut(relation) == <<"?">> \o relation

\* _reverse_relation: reverse_map.get(relation, relation)
reverse_relation(relation) ==
    IF relation \in DOMAIN reverse_map THEN reverse_map[relation] ELSE relation

Relationship(source, relation, target) ==
    [source |-> source, relation |-> relation, target |-> target]

\* The key of a record: its normalized endpoints and its relation, stripped
\* and in lower case.
rel_source(r) == normalize_entity_name(GetOr(r, "source", <<>>))
rel_target(r) == normalize_entity_name(GetOr(r, "target", <<>>))
rel_relation(r) == Lower(Strip(GetOr(r, "relation", <<>>)))
key1(r) == <<rel_source(r), rel_relation(r), rel_target(r)>>
key2(r) == <<rel_target(r), reverse_relation(rel_relation(r)), rel_source(r)>>

\* seen and unique after the first i - 1 records.
RECURSIVE DeduplicateRelationshipsFrom(_, _, _, _)
DeduplicateRelationshipsFrom(rels, i, seen, unique) ==
    IF i > Len(rels) THEN unique
    ELSE LET r == rels[i] IN
         IF /\ key1(r) \notin seen /\ key2(r) \notin seen
            /\ rel_source(r) # <<>> /\ rel_target(r) # <<>>
         THEN DeduplicateRelationshipsFrom(rels, i + 1, seen \cup {key1(r)},
                                           Append(unique, r))
         ELSE DeduplicateRelationshipsFrom(rels, i + 1, seen, unique)

advanced_deduplicate_relationships(rels) ==
    DeduplicateRelationshipsFrom(rels, 1, {}, <<>>)

\* The records the passes can hand in: two companies, in both directions,
\* with a relation that reads the same both ways (in two spellings), with
\* a relation f of reverse_map and its passive form, and with no source.
NameA == <<"A", "b">>
NameB == <<"c", "d", " ", "L", "t", "d", ".">>
RelationshipTemplates(f) ==
    {Relationship(NameA, competes, NameB), Relationship(NameB, competes, NameA),
     Relationship(NameB, <<"V", "S", " ">>, NameA),
     Relationship(<<>>, competes, NameB),
     Relationship(NameA, f, NameB),
     Relationship(NameB, reverse_map[f], NameA)}

RelIdle ==
    /\ r_pc = "idle"
    /\ relationships = <<>>
    /\ unique_relationships = <<>>

RelInit ==
    /\ r_pc = "collected"
    /\ \E f \in Forward :
        relationships \in SeqsUpTo(RelationshipTemplates(f), MaxRels)
    /\ unique_relationships = <<>>

\* extract_and_analyze: the relationship deduplication pass.
DeduplicateRelationships ==
    /\ r_pc = "collected"
    /\ unique_relationships' = advanced_deduplicate_relationships(relationships)
    /\ r_pc' = "deduplicated"
    /\ UNCHANGED relationships
    /\ UNCHANGED nonRelVars

RelNext == DeduplicateRelationships

\* Records of the input or the output with the given endpoints and relation,
\* in the given direction.
Edges(rels, s, relation, t) ==
    {i \in 1..Len(rels) : key1(rels[i]) = <<s, relation, t>>}
Endpoints(rels) ==
    ({rel_source(rels[i]) : i \in 1..Len(rels)}
        \cup {rel_target(rels[i]) : i \in 1..Len(rels)}) \ {<<>>}
Relations(rels) == {rel_relation(rels[i]) : i \in 1..Len(rels)}
HasDistinctReverse(relation) ==
    \/ relation \in DOMAIN reverse_map
    \/ \E f \in DOMAIN reverse_map : reverse_map[f] = relation

\* C11: for a relation that reads the same in both directions, when the
\* input holds the edge from A to B and the edge from B to A, the output
\* holds exactly one record between A and B for it.
C11_SymmetricSuppressed ==
    r_pc = "deduplicated" =>
        \A s, t \in Endpoints(relationships) : \A relation \in Relations(relationships) :
            (/\ ~HasDistinctReverse(relation)
             /\ Edges(relationships, s, relation, t) # {}
             /\ Edges(relationships, t, relation, s) # {})
            => Cardinality(Edges(unique_relationships, s, relation, t)
                           \cup Edges(unique_relationships, t, relation, s)) = 1

C11_Witness ==
    /\ r_pc = "deduplicated"
    /\ Len(relationships) = 3
    /\ relationships[1] = Relationship(NameB, <<"V", "S", " ">>, NameA)
    /\ relationships[2] = Relationship(NameA, competes, NameB)
    /\ Len(unique_relationships) = 1

\* C12: for a relation of reverse_map, when the input holds the edge from A
\* to B and the edge from B to A under the reverse relation, the output
\* holds exactly one of the two, whichever comes first.
C12_ReverseSuppressed ==
    r_pc = "deduplicated" =>
        \A s, t \in Endpoints(relationships) : \A f \in DOMAIN reverse_map :
            (/\ Edges(relationships, s, f, t) # {}
             /\ Edges(relationships, t, reverse_map[f], s) # {})
            => Cardinality(Edges(unique_relationships, s, f, t)
                           \cup Edges(unique_relationships, t, reverse_map[f], s)) = 1


\* ------------------------------------------------------------------------
\* The graph store under repeated writes of one batch
\* (Neo4jStorage.store_extraction_results, AnalysisAgent._store_to_neo4j)
\* Nodes are kept by name, edges by (source, type, target); both carry their
\* description.
\* ------------------------------------------------------------------------

MaxApplies == 2
MaxBatchRels == 2

Described(r, description) ==
    [source |-> r.source, relation |-> r.relation, target |-> r.target,
     description |-> description]
EdgeKey(r) == <<r.source, r.relation, r.target>>
Matched(nodes, r) == r.source \in DOMAIN nodes /\ r.target \in DOMAIN nodes

\* MATCH (source), MATCH (target), MERGE (source)-[r:RELATES_TO {type}]->(target)
\* of Neo4jStorage.store_extraction_results: the description is set when the
\* edge is created.
store_relationship(nodes, edges, r) ==
    IF ~Matched(nodes, r) THEN edges
    ELSE [k \in DOMAIN edges \cup {EdgeKey(r)} |->
            IF k \in DOMAIN edges THEN edges[k] ELSE r.description]

RECURSIVE StoreRelationshipsFrom(_, _, _, _)
StoreRelationshipsFrom(nodes, edges, rels, i) ==
    IF i > Len(rels) THEN edges
    ELSE StoreRelationshipsFrom(nodes, store_relationship(nodes, edges, rels[i]),
                                rels, i + 1)

\* The relationship statement of _store_to_neo4j with CREATE in the place of
\* MERGE.
set_relationship_Mut(nodes, edges, r) ==
    LET fresh == Append(EdgeKey(r), Cardinality(DOMAIN edges)) IN
    IF ~Matched(nodes, r) THEN edges
    ELSE [k \in DOMAIN edges \cup {fresh} |->
            IF k = fresh THEN r.description ELSE edges[k]]

\* MATCH (source), MATCH (target), MERGE ... SET r.description of
\* AnalysisAgent._store_to_neo4j.
set_relationship(nodes, edges, r) ==
    IF ~Matched(nodes, r) THEN edges
    ELSE [k \in DOMAIN edges \cup {EdgeKey(r)} |->
            IF k = EdgeKey(r) THEN r.description ELSE edges[k]]

RECURSIVE SetRelationshipsFrom(_, _, _, _)
SetRelationshipsFrom(nodes, edges, rels, i) ==
    IF i > Len(rels) THEN edges
    ELSE SetRelationshipsFrom(nodes, set_relationship(nodes, edges, rels[i]),
                              rels, i + 1)

NameZ == <<"z", "z">>
BatchEntities ==
    { <<>>,
      <<Entity(NameA, "dd", "high", "doc1")>>,
      <<Entity(NameB, "d", "medium", "doc1")>>,
      <<Entity(NameA, "dd", "high", "doc1"), Entity(NameB, "d", "medium", "doc1")>> }
BatchRelationships ==
    { Described(Relationship(NameA, use, NameB), "e"),
      Described(Relationship(NameB, reverse_map[use], NameA), "ee"),
      Described(Relationship(NameA, use, NameB), "eee"),
      Described(Relationship(NameA, competes, NameZ), "e") }

NoEdges == [k \in {} |-> ""]
EarlierPair == [n \in {NameA, NameB} |-> "dddd"]
EarlierEdges == [k \in {<<NameA, use, NameB>>} |-> "eeee"]

StoreIdle ==
    /\ s_pc = "idle"
    /\ s_batch = <<>>
    /\ s_nodes = EmptyGraph
    /\ s_edges = NoEdges
    /\ s_applied = 0
    /\ s_first = <<>>

StoreInit ==
    /\ s_pc = "open"
    /\ \E entities \in BatchEntities,
          rels \in SeqsUpTo(BatchRelationships, MaxBatchRels) :
        s_batch = [entities |-> entities, relationships |-> rels]
    /\ \E store \in {<<EmptyGraph, NoEdges>>, <<EarlierGraph, NoEdges>>,
                      <<EarlierPair, EarlierEdges>>} :
        s_nodes = store[1] /\ s_edges = store[2]
    /\ s_applied = 0
    /\ s_first = <<>>

Counts(nodes, edges) == <<Cardinality(DOMAIN nodes), Cardinality(DOMAIN edges)>>

\* What a write leaves behind: the store, and the counts after the first
\* write that succeeded.
Written(ok, nodes, edges) ==
    /\ s_nodes' = IF ok THEN nodes ELSE s_nodes
    /\ s_edges' = IF ok THEN edges ELSE s_edges
    /\ s_applied' = IF ok THEN s_applied + 1 ELSE s_applied
    /\ s_first' = IF ok /\ s_applied = 0 THEN Counts(nodes, edges) ELSE s_first

\* Neo4jStorage.store_extraction_results on the batch: the entities, then the
\* relationships; nothing is written when the store is not connected.
ApplyExtractionStore ==
    /\ s_pc = "open" /\ s_applied < MaxApplies
    /\ \E ok \in BOOLEAN :
        LET nodes == StoreEntitiesFrom(s_nodes, s_batch.entities, 1)
            edges == StoreRelationshipsFrom(nodes, s_edges, s_batch.relationships, 1)
        IN Written(ok, nodes, edges)
    /\ UNCHANGED <<s_pc, s_batch>>
    /\ UNCHANGED nonStoreVars

\* AnalysisAgent._store_to_neo4j on the batch.
ApplyAnalysisStore ==
    /\ s_pc = "open" /\ s_applied < MaxApplies
    /\ \E ok \in BOOLEAN :
        LET nodes == SetEntitiesFrom(s_nodes, s_batch.entities, 1)
            edges == SetRelationshipsFrom(nodes, s_edges, s_batch.relationships, 1)
        IN Written(ok, nodes, edges)
    /\ UNCHANGED <<s_pc, s_batch>>
    /\ UNCHANGED nonStoreVars

StoreNext == ApplyExtractionStore \/ ApplyAnalysisStore

\* C13: once the batch has been written, writing it again, by either writer,
\* leaves the number of Entity nodes and of RELATES_TO edges as the first
\* write left them.
C13_IdempotentUpsert ==
    s_applied >= 1 => Counts(s_nodes, s_edges) = s_first

C13_Witness ==
    /\ s_applied >= 2
    /\ Len(s_batch.entities) = 2
    /\ Len(s_batch.relationships) = 2
    /\ s_first = <<2, 2>>
    /\ Counts(s_nodes, s_edges) = <<2, 2>>

\* ------------------------------------------------------------------------
\* DataExtractionAgent.extract_and_analyze with failing documents, failing
\* completion calls and records that omit fields
\* (agents/data_extraction_agent/agent.py)
\* A record that omits a field is a record without it.  A worker that raises
\* leaves Raised as the outcome of its future.
\* ------------------------------------------------------------------------

OLLAMA_TIMEOUT == 60
DOCUMENT_TIMEOUT == 180
MAX_NAMES_DEEP == 20
DEEP_MIN_ENTITIES == 3
INFER_MIN_ENTITIES == 5
INFER_MIN_RELATIONSHIPS == 3
MAX_RELS_INFER == 10

Raised == [raised |-> TRUE]
Drop(r, k) == [f \in DOMAIN r \ {k} |-> r[f]]
Take(s, n) == SubSeq(s, 1, Min(Len(s), n))
Names(s) == \A i \in 1..Len(s) : HasKey(s[i], "name")

FillerEntities(d) == FromTemplates(Fillers, d)
Between(i, relation, j) ==
    Relationship(FillerEntities(1)[i].name, relation, FillerEntities(1)[j].name)

\* What the basic pass of a document parses from the answers of its chunks,
\* by the content of the document.
Parsed(content, d) ==
    IF content = "small"
    THEN [entities |-> <<Entity(NameA, "dd", "high", DocUrl(d)),
                         Entity(NameB, "d", "medium", DocUrl(d))>>,
          relationships |-> <<Relationship(NameA, use, NameB)>>]
    ELSE IF content = "big"
    THEN [entities |-> FillerEntities(d),
          relationships |-> <<Between(1, use, 2), Between(2, use, 3),
                              Between(3, competes, 4)>>]
    ELSE IF content = "no_relation"
    THEN [entities |-> FillerEntities(d),
          relationships |-> <<Between(1, use, 2), Between(2, use, 3),
                              Drop(Between(3, use, 4), "relation")>>]
    ELSE IF content = "no_target"
    THEN [entities |-> FillerEntities(d),
          relationships |-> <<Between(1, use, 2), Between(2, use, 3),
                              Drop(Between(3, use, 4), "target")>>]
    ELSE IF content = "nameless_high"
    THEN [entities |-> <<Drop(Entity(NameA, "dd", "high", DocUrl(d)), "name"),
                         Entity(NameB, "d", "medium", DocUrl(d))>>,
          relationships |-> <<>>]
    ELSE IF content = "nameless"
    THEN [entities |-> <<Drop(Entity(NameA, "dd", "medium", DocUrl(d)), "name"),
                         Entity(NameB, "d", "medium", DocUrl(d))>>,
          relationships |-> <<>>]
    ELSE [relationships |-> <<Relationship(NameB, Passive(use), NameA)>>]

Contents == {"small", "big", "no_relation", "no_target", "nameless_high",
             "nameless", "no_entities"}

\* The enrichment pass on records that may omit the name: the names of the
\* entities of importance high are read, then the name of every entry of the
\* answer, then the name of every entity.
enhance_or_raise(entities, answer) ==
    LET important == Take(SelectSeq(entities,
                              LAMBDA e : GetOr(e, "importance", "") = "high"),
                          MAX_ENHANCED)
        enhanced == GetOr(answer, "enhanced_entities", <<>>)
    IN IF important = <<>> THEN [entities |-> entities]
       ELSE IF ~Names(important) THEN Raised
       ELSE IF answer = None \/ ~HasKey(answer, "enhanced_entities")
       THEN [entities |-> entities]
       ELSE IF ~Names(enhanced) \/ ~Names(entities) THEN Raised
       ELSE [entities |->
               [i \in 1..Len(entities) |->
                  IF \E j \in 1..Len(enhanced) : enhanced[j].name = entities[i].name
                  THEN [entities[i] EXCEPT !.description = "eeee",
                                           !.key_facts = <<"fact">>]
                  ELSE entities[i]]]

\* _deep_process_document: basic, deep and answer are what the basic pass,
\* the relationship pass and the enrichment pass get from the completion
\* service (None when the call fails or the answer is not JSON).
deep_process_document(doc, d, basic, deep, answer) ==
    IF ~doc.text THEN None
    ELSE LET all_e == IF basic = None THEN <<>> ELSE GetOr(basic, "entities", <<>>)
             rels1 == IF basic = None THEN <<>> ELSE GetOr(basic, "relationships", <<>>)
             mining == Len(all_e) > DEEP_MIN_ENTITIES
             rels2 == IF mining /\ deep # None
                      THEN rels1 \o GetOr(deep, "relationships", <<>>) ELSE rels1
             enhanced == IF Len(all_e) > 0 THEN enhance_or_raise(all_e, answer)
                         ELSE [entities |-> all_e]
         IN IF mining /\ ~Names(Take(all_e, MAX_NAMES_DEEP)) THEN Raised
            ELSE IF enhanced = Raised THEN Raised
            ELSE [entities |-> enhanced.entities, relationships |-> rels2,
                  summary_info |-> [url |-> DocUrl(d),
                                    entity_count |-> Len(enhanced.entities),
                                    relationship_count |-> Len(rels2)]]

With(r, k, v) == [f \in DOMAIN r \cup {k} |-> IF f = k THEN v ELSE r[f]]

\* _call_ollama: the answer, or None when the request fails or times out.
call_ollama(service, answered, answer) ==
    IF service = "up" /\ answered THEN answer ELSE None

DocumentTemplates ==
    {[text |-> FALSE, content |-> "small", chunks |-> 1]}
    \cup {[text |-> TRUE, content |-> c, chunks |-> 1] : c \in Contents}
    \cup {[text |-> TRUE, content |-> "small", chunks |-> 5]}

RoundIdle ==
    /\ rd_pc = "idle"
    /\ rd_llm = "none"
    /\ rd_docs = <<>>
    /\ rd_stage = <<>>
    /\ rd_result = <<>>
    /\ rd_elapsed = <<>>
    /\ rd_entities = <<>>
    /\ rd_relationships = <<>>
    /\ rd_summaries = <<>>
    /\ rd_unique = <<>>
    /\ rd_unique_rels = <<>>
    /\ rd_return = None

\* extract_and_analyze is called with the results of the scraping step.
RoundInit ==
    /\ rd_pc = "start"
    /\ rd_llm \in {"up", "down"}
    /\ \E n \in {0} \cup Docs : rd_docs \in [1..n -> DocumentTemplates]
    /\ rd_stage = [d \in DOMAIN rd_docs |-> "pending"]
    /\ rd_result = [d \in DOMAIN rd_docs |-> None]
    /\ rd_elapsed = [d \in DOMAIN rd_docs |-> 0]
    /\ rd_entities = <<>>
    /\ rd_relationships = <<>>
    /\ rd_summaries = <<>>
    /\ rd_unique = <<>>
    /\ rd_unique_rels = <<>>
    /\ rd_return = None

\* extract_and_analyze: the early return for no documents, or the submission
\* of one worker for each document.
SubmitDocuments ==
    /\ rd_pc = "start"
    /\ IF rd_docs = <<>>
       THEN /\ rd_pc' = "returned"
            /\ rd_return' = [status |-> "no_data", entities |-> <<>>,
                             summary |-> "no data"]
            /\ UNCHANGED rd_stage
       ELSE /\ rd_pc' = "workers"
            /\ rd_stage' = [d \in DOMAIN rd_docs |-> "running"]
            /\ UNCHANGED rd_return
    /\ UNCHANGED <<rd_llm, rd_docs, rd_result, rd_elapsed, rd_entities,
                   rd_relationships, rd_summaries, rd_unique, rd_unique_rels>>
    /\ UNCHANGED nonRoundVars

DeepAnswers ==
    {[relationships |-> <<Between(1, lead, 5)>>],
     [relationships |-> <<Drop(Between(1, lead, 5), "source")>>]}
EnhanceAnswers ==
    {[enhanced_entities |-> <<[name |-> NameA, extended_description |-> "eeee"]>>],
     [enhanced_entities |-> <<[extended_description |-> "eeee"]>>]}

\* A worker runs _deep_process_document to its end.  timeouts is the number
\* of chunks of the basic pass whose completion call ran into the request
\* timeout; the seconds spent are at least those of these calls.
WorkerCompletes(d) ==
    /\ rd_pc = "workers" /\ rd_stage[d] = "running"
    /\ \E timeouts \in 0..rd_docs[d].chunks, answered1, answered2, answered3 \in BOOLEAN,
          deep \in DeepAnswers, answer \in EnhanceAnswers :
        LET doc == rd_docs[d]
            basic == call_ollama(rd_llm, answered1 /\ timeouts < doc.chunks,
                                 Parsed(doc.content, d)) IN
        /\ (~doc.text => timeouts = 0)
        /\ (basic = None => ~answered2 /\ ~answered3)
        /\ (rd_llm = "down" \/ ~doc.text => ~answered1 /\ ~answered2 /\ ~answered3)
        /\ (~answered2 => HasKey(deep.relationships[1], "source"))
        /\ (~answered3 => HasKey(answer.enhanced_entities[1], "name"))
        /\ rd_result' = [rd_result EXCEPT ![d] =
                deep_process_document(doc, d, basic,
                                      call_ollama(rd_llm, answered2, deep),
                                      call_ollama(rd_llm, answered3, answer))]
        /\ rd_elapsed' = [rd_elapsed EXCEPT ![d] = OLLAMA_TIMEOUT * timeouts]
    /\ rd_stage' = [rd_stage EXCEPT ![d] = "done"]
    /\ UNCHANGED <<rd_pc, rd_llm, rd_docs, rd_entities, rd_relationships,
                   rd_summaries, rd_unique, rd_unique_rels, rd_return>>
    /\ UNCHANGED nonRoundVars

\* The body of the as_completed loop with a failed worker wiping the list.
collect_Mut(collected, res, field) ==
    IF res = Raised THEN <<>>
    ELSE IF res = None THEN collected
    ELSE collected \o res[field]

\* The body of the as_completed loop for one list: the exception of a worker
\* is caught and an empty result is skipped.
collect(collected, res, field) ==
    IF res = Raised \/ res = None THEN collected
    ELSE collected \o res[field]

\* extract_and_analyze, the as_completed loop: a future that is done is taken
\* and its result, if any, is added to the lists.
CollectResult(d) ==
    /\ rd_pc = "workers" /\ rd_stage[d] = "done"
    /\ rd_entities' = collect(rd_entities, rd_result[d], "entities")
    /\ rd_relationships' = collect(rd_relationships, rd_result[d], "relationships")
    /\ rd_summaries' = IF rd_result[d] \in {Raised, None} THEN rd_summaries
                       ELSE Append(rd_summaries, rd_result[d].summary_info)
    /\ rd_stage' = [rd_stage EXCEPT ![d] = "collected"]
    /\ UNCHANGED <<rd_pc, rd_llm, rd_docs, rd_result, rd_elapsed, rd_unique,
                   rd_unique_rels, rd_return>>
    /\ UNCHANGED nonRoundVars

AllTaken == \A d \in DOMAIN rd_docs : rd_stage[d] = "collected"

\* The test of the early return after the loop, never taken.
nothing_extracted_Mut(entities) == FALSE

\* The test of the early return after the loop: if not all_entities.
nothing_extracted(entities) == entities = <<>>

\* extract_and_analyze after the loop: the early return when no entity was
\* collected, or the first deduplication pass.
RoundDeduplicate ==
    /\ rd_pc = "workers" /\ AllTaken
    /\ IF nothing_extracted(rd_entities)
       THEN /\ rd_pc' = "returned"
            /\ rd_return' = [status |-> "empty", entities |-> <<>>,
                             relationships |-> <<>>,
                             summary |-> "nothing extracted"]
            /\ UNCHANGED rd_unique
       ELSE /\ rd_unique' = advanced_deduplicate_entities(rd_entities)
            /\ rd_pc' = "deduplicated"
            /\ UNCHANGED rd_return
    /\ UNCHANGED <<rd_llm, rd_docs, rd_stage, rd_result, rd_elapsed, rd_entities,
                   rd_relationships, rd_summaries, rd_unique_rels>>
    /\ UNCHANGED nonRoundVars

Confident(records) ==
    SelectSeq(records, LAMBDA e : GetOr(e, "confidence", "") \in {"high", "medium"})

InferredEntity(name, confidence) ==
    With(Entity(name, "why", "none", ""), "confidence", confidence)
ExpansionAnswers ==
    { [inferred_entities |-> <<InferredEntity(NameZ, "high")>>],
      [inferred_entities |-> <<Drop(InferredEntity(NameZ, "medium"), "name")>>],
      [inferred_entities |-> <<Drop(InferredEntity(NameZ, "high"), "confidence")>>] }

\* extract_and_analyze: entity expansion and the second deduplication pass,
\* with more than EXPANSION_MIN entities; the seeds of _expand_entities are
\* the entities of importance high.
RoundExpand ==
    /\ rd_pc = "deduplicated"
    /\ \E answered \in BOOLEAN, proposals \in ExpansionAnswers :
        LET seeds == SelectSeq(rd_unique,
                       LAMBDA e : GetOr(e, "importance", "") = "high")
            parsed == call_ollama(rd_llm, answered, proposals)
            kept == IF seeds = <<>> \/ parsed = None THEN <<>>
                    ELSE Confident(GetOr(parsed, "inferred_entities", <<>>)) IN
        /\ (~answered \/ seeds = <<>> \/ Len(rd_unique) <= EXPANSION_MIN
                => proposals = [inferred_entities |-> <<InferredEntity(NameZ, "high")>>])
        /\ rd_unique' = IF Len(rd_unique) > EXPANSION_MIN
                        THEN advanced_deduplicate_entities(rd_unique \o kept)
                        ELSE rd_unique
    /\ rd_pc' = "expanded"
    /\ UNCHANGED <<rd_llm, rd_docs, rd_stage, rd_result, rd_elapsed, rd_entities,
                   rd_relationships, rd_summaries, rd_unique_rels, rd_return>>
    /\ UNCHANGED nonRoundVars

\* An entry of "inferred_relationships" in the format the prompt asks for.
InferredRelationship(i, j, confidence) ==
    With(With(Between(i, lead, j), "confidence", confidence), "inferred", TRUE)
InferenceAnswers ==
    { [inferred_relationships |-> <<InferredRelationship(4, 5, "medium")>>],
      [inferred_relationships |-> <<Drop(InferredRelationship(4, 5, "high"), "relation")>>],
      [inferred_relationships |-> <<InferredRelationship(4, 5, "low")>>],
      [inferred_relationships |-> <<Drop(InferredRelationship(4, 5, "high"), "inferred")>>],
      [inferred_relationships |->
          <<With(With(Between(1, use, 2), "confidence", "high"), "inferred", TRUE),
            InferredRelationship(5, 1, "high")>>] }

\* The reads of _infer_relationships before its completion call: the name of
\* the first entities, and source, target and relation of the first
\* relationships.
infer_reads(entities, rels) ==
    /\ Names(Take(entities, 15))
    /\ \A i \in 1..Min(Len(rels), MAX_RELS_INFER) :
          HasKey(rels[i], "source") /\ HasKey(rels[i], "target")
              /\ HasKey(rels[i], "relation")

\* extract_and_analyze: relationship deduplication, inference of further
\* relationships and the second relationship deduplication.  A KeyError of
\* _infer_relationships leaves extract_and_analyze.
RoundInfer ==
    /\ rd_pc = "expanded"
    /\ \E answered \in BOOLEAN, proposals \in InferenceAnswers :
        LET unique == advanced_deduplicate_relationships(rd_relationships)
            inferring == Len(rd_unique) >= INFER_MIN_ENTITIES
                            /\ Len(unique) >= INFER_MIN_RELATIONSHIPS
            parsed == call_ollama(rd_llm, answered, proposals)
            kept == IF ~inferring \/ parsed = None THEN <<>>
                    ELSE Confident(GetOr(parsed, "inferred_relationships", <<>>)) IN
        /\ (~answered \/ ~inferring \/ ~infer_reads(rd_unique, unique)
                => proposals = [inferred_relationships |->
                                  <<InferredRelationship(4, 5, "medium")>>])
        /\ IF inferring /\ ~infer_reads(rd_unique, unique)
           THEN /\ rd_pc' = "raised"
                /\ rd_unique_rels' = unique
           ELSE /\ rd_pc' = "inferred"
                /\ rd_unique_rels' = advanced_deduplicate_relationships(unique \o kept)
    /\ UNCHANGED <<rd_llm, rd_docs, rd_stage, rd_result, rd_elapsed, rd_entities,
                   rd_relationships, rd_summaries, rd_unique, rd_return>>
    /\ UNCHANGED nonRoundVars

\* extract_and_analyze: the overall summary (the text of the completion
\* service, or the fixed sentence when it fails) and the return.
RoundSummarize ==
    /\ rd_pc = "inferred"
    /\ \E answered \in BOOLEAN :
        /\ (rd_llm = "down" => ~answered)
        /\ rd_return' =
              [status |-> "success", entities |-> rd_unique,
               relationships |-> rd_unique_rels,
               overall_summary |-> IF answered THEN "model summary" ELSE "fixed summary",
               statistics |-> [total_entities |-> Len(rd_unique),
                               total_relationships |-> Len(rd_unique_rels),
                               documents_processed |-> Len(rd_summaries)]]
    /\ rd_pc' = "returned"
    /\ UNCHANGED <<rd_llm, rd_docs, rd_stage, rd_result, rd_elapsed, rd_entities,
                   rd_relationships, rd_summaries, rd_unique, rd_unique_rels>>
    /\ UNCHANGED nonRoundVars

RoundNext ==
    \/ SubmitDocuments
    \/ \E d \in Docs : d \in DOMAIN rd_docs /\ WorkerCompletes(d)
    \/ \E d \in Docs : d \in DOMAIN rd_docs /\ CollectResult(d)
    \/ RoundDeduplicate
    \/ RoundExpand
    \/ RoundInfer
    \/ RoundSummarize

\* ------------------------------------------------------------------------
\* Properties of the extraction round with failures
\* ------------------------------------------------------------------------

Contributed(d) == rd_stage[d] = "collected" /\ rd_result[d] \notin {None, Raised}
RECURSIVE Produced(_, _)
Produced(n, field) ==
    IF n = 0 THEN 0
    ELSE Produced(n - 1, field)
            + (IF Contributed(n) THEN Len(rd_result[n][field]) ELSE 0)
RoundOver == rd_pc \in {"returned", "raised"}

\* C15: when every completion call fails, extract_and_analyze raises nothing,
\* is never stuck before it returns, and returns an empty result whose
\* status is not success.
C15_FallbackSafety ==
    rd_llm = "down" =>
        /\ rd_pc # "raised"
        /\ ~RoundOver => ENABLED RoundNext
        /\ rd_pc = "returned" =>
              /\ rd_return.status \in {"no_data", "empty"}
              /\ rd_return.entities = <<>>

C15_Witness ==
    /\ rd_llm = "down"
    /\ rd_pc = "returned"
    /\ Len(rd_docs) = 2
    /\ rd_docs[1].text /\ rd_docs[2].text
    /\ rd_return.status = "empty"

\* C16: whatever fields the records of the model output omit,
\* extract_and_analyze does not raise.
C16_MalformedOutputContained == rd_pc # "raised"

\* C17: a worker that returns nothing or raises adds nothing to the lists
\* and does not stop the loop (while a document is not yet taken, a worker
\* can complete or a result can be taken); when the loop is over, the lists
\* hold every entity and every relationship of the workers that returned a
\* result, and nothing else.
C17_DocumentIsolation ==
    /\ (rd_pc = "workers" /\ ~AllTaken) =>
          ENABLED (\E d \in DOMAIN rd_docs : WorkerCompletes(d) \/ CollectResult(d))
    /\ (rd_pc \notin {"idle", "start"} /\ AllTaken) =>
          /\ Len(rd_entities) = Produced(Len(rd_docs), "entities")
          /\ Len(rd_relationships) = Produced(Len(rd_docs), "relationships")
          /\ \A d \in DOMAIN rd_docs : Contributed(d) =>
                /\ \A i \in 1..Len(rd_result[d].entities) :
                      rd_result[d].entities[i] \in Range(rd_entities)
                /\ \A i \in 1..Len(rd_result[d].relationships) :
                      rd_result[d].relationships[i] \in Range(rd_relationships)

C17_Witness ==
    /\ rd_pc = "deduplicated"
    /\ Len(rd_docs) = 2
    /\ rd_result[1] = Raised
    /\ rd_docs[2].text
    /\ Contributed(2)
    /\ Len(rd_entities) = EXPANSION_MIN
    /\ Len(rd_relationships) = 4

\* C22: every entity and every relationship of a result returned by a
\* document's worker carries the url of that document.
C22_Provenance ==
    \A d \in DOMAIN rd_docs :
        Contributed(d) =>
            /\ \A i \in 1..Len(rd_result[d].entities) :
                  GetOr(rd_result[d].entities[i], "source_url", "") = DocUrl(d)
            /\ \A i \in 1..Len(rd_result[d].relationships) :
                  GetOr(rd_result[d].relationships[i], "source_url", "") = DocUrl(d)

ExtractedEdges == Range(advanced_deduplicate_relationships(rd_relationships))
InferredEdges == {i \in 1..Len(rd_unique_rels) : rd_unique_rels[i] \notin ExtractedEdges}

\* C23: an edge of the final relationship list that was not extracted from
\* a document is there only when the round had at least 5 entities and 3
\* relationships, has confidence medium or high, is tagged inferred, and
\* has no edge before it in the list with its key or its mirrored key.
C23_InferredEdges ==
    rd_pc \in {"inferred", "returned"} =>
        \A i \in InferredEdges :
            LET r == rd_unique_rels[i] IN
            /\ Len(rd_unique) >= INFER_MIN_ENTITIES
            /\ Cardinality(ExtractedEdges) >= INFER_MIN_RELATIONSHIPS
            /\ GetOr(r, "confidence", "") \in {"high", "medium"}
            /\ GetOr(r, "inferred", FALSE) = TRUE
            /\ \A j \in 1..(i - 1) :
                  key1(rd_unique_rels[j]) \notin {key1(r), key2(r)}

\* The records of the workers that returned a result, document by document
\* in the order of submission.
RECURSIVE InSubmissionOrder(_, _)
InSubmissionOrder(n, field) ==
    IF n = 0 THEN <<>>
    ELSE InSubmissionOrder(n - 1, field)
            \o (IF Contributed(n) THEN rd_result[n][field] ELSE <<>>)

\* C28: when the loop is over, deduplication of the collected records gives
\* as many canonical entities and as many canonical relationships as it
\* gives for the same results taken in the order of submission.
C28_OrderIndependence ==
    rd_pc = "deduplicated" =>
        /\ Len(rd_unique) =
              Len(advanced_deduplicate_entities(
                      InSubmissionOrder(Len(rd_docs), "entities")))
        /\ Len(advanced_deduplicate_relationships(rd_relationships)) =
              Len(advanced_deduplicate_relationships(
                      InSubmissionOrder(Len(rd_docs), "relationships")))

\* C19: when the loop is over, no document that took longer than
\* DOCUMENT_TIMEOUT has added its result: the round has gone on without it.
C19_SlowDocumentAbandoned ==
    (rd_pc \notin {"idle", "start", "workers"}) =>
        \A d \in DOMAIN rd_docs :
            rd_elapsed[d] > DOCUMENT_TIMEOUT => ~Contributed(d)

\* ------------------------------------------------------------------------
\* Web-scraping agent: scrape_urls over a list of URLs, some of which fail
\* ------------------------------------------------------------------------
MaxUrls == 3
SCRAPING_MAX_RETRIES == 3

GivenUrls == {"u1", "u2"}
FoundUrls == {<<>>, <<"u3">>, <<"u1", "u3">>}
FetchOutcomes == {"ok", "http_error", "timeout", "error"}

\* _scrape_single_url: the dict returned for a page that was fetched and
\* parsed, and the dict returned when the task gives up.
ScrapedDocument(url) == [success |-> TRUE, url |-> url]
ScrapeFailure(url, error_type) ==
    [success |-> FALSE, url |-> url, error_type |-> error_type]

\* list(set(urls + additional_urls)): the distinct URLs, in any order.
Merged(urls, additional) ==
    LET distinct == Range(urls \o additional) IN
    {l \in [1..Cardinality(distinct) -> distinct] : Range(l) = distinct}

ScrapeIdle ==
    /\ sc_pc = "idle"
    /\ sc_given = <<>>
    /\ sc_extra = <<>>
    /\ sc_retries = 0
    /\ sc_urls = <<>>
    /\ sc_attempt = <<>>
    /\ sc_fetched = <<>>
    /\ sc_result = <<>>
    /\ sc_return = None

\* scrape_urls is called with a list of URLs; the dynamic search, when it is
\* enabled and answers, has URLs of its own to add.
ScrapeInit ==
    /\ sc_pc = "start"
    /\ sc_given \in SeqsUpTo(GivenUrls, MaxUrls)
    /\ sc_extra \in FoundUrls
    /\ sc_retries \in {0, 1, SCRAPING_MAX_RETRIES}
    /\ sc_urls = <<>>
    /\ sc_attempt = <<>>
    /\ sc_fetched = <<>>
    /\ sc_result = <<>>
    /\ sc_return = None

\* scrape_urls: the URLs of the dynamic search are merged in, and one task
\* is created for each URL of the list.
CreateTasks ==
    /\ sc_pc = "start"
    /\ \E urls \in (IF sc_extra # <<>> THEN Merged(sc_given, sc_extra)
                    ELSE {sc_given}) :
        /\ sc_urls' = urls
        /\ sc_attempt' = [i \in DOMAIN urls |-> 0]
        /\ sc_fetched' = [i \in DOMAIN urls |-> "pending"]
        /\ sc_result' = [i \in DOMAIN urls |-> None]
    /\ sc_pc' = "tasks"
    /\ UNCHANGED <<sc_given, sc_extra, sc_retries, sc_return>>
    /\ UNCHANGED nonScrapeVars

Running(i) == sc_fetched[i] \in {"pending", "retry"}

\* _scrape_single_url: one pass of the retry loop of task i.  A fetched page
\* is returned; an HTTP error or a timeout is retried until the last attempt
\* and then returned as a failure; any other exception is returned as a
\* failure at once.  With no attempt allowed the loop ends and the task
\* returns None.
ScrapeSingleUrl(i) ==
    /\ sc_pc = "tasks"
    /\ Running(i)
    /\ IF sc_attempt[i] >= sc_retries
       THEN /\ sc_fetched' = [sc_fetched EXCEPT ![i] = "none"]
            /\ sc_result' = [sc_result EXCEPT ![i] = None]
            /\ UNCHANGED sc_attempt
       ELSE \E met \in FetchOutcomes :
            LET last == sc_attempt[i] = sc_retries - 1 IN
            /\ sc_attempt' = [sc_attempt EXCEPT ![i] = @ + 1]
            /\ sc_fetched' = [sc_fetched EXCEPT ![i] =
                    IF met \in {"http_error", "timeout"} /\ ~last
                    THEN "retry" ELSE met]
            /\ sc_result' = [sc_result EXCEPT ![i] =
                    CASE met = "ok" -> ScrapedDocument(sc_urls[i])
                      [] met = "error" -> ScrapeFailure(sc_urls[i], "unknown")
                      [] met \in {"http_error", "timeout"} /\ last ->
                            ScrapeFailure(sc_urls[i], met)
                      [] OTHER -> None]
    /\ UNCHANGED <<sc_pc, sc_given, sc_extra, sc_retries, sc_urls, sc_return>>
    /\ UNCHANGED nonScrapeVars

AllGathered == \A i \in DOMAIN sc_urls : ~Running(i)

NoneScraped == [results |-> <<>>, successful |-> 0, failed |-> 0]

\* scrape_urls: the count of one gathered result, with the failure dicts
\* left out of the count.
count_result_Mut(acc, res) ==
    IF res = Raised
    THEN [acc EXCEPT !.failed = @ + 1]
    ELSE IF res # None /\ GetOr(res, "success", FALSE)
    THEN [acc EXCEPT !.results = Append(@, res), !.successful = @ + 1]
    ELSE acc

\* scrape_urls: the count of one gathered result: an exception is a
\* failure, a dict with a true "success" is appended and counted as
\* successful, anything else (None, a failure dict) is a failure.
count_result(acc, res) ==
    IF res = Raised
    THEN [acc EXCEPT !.failed = @ + 1]
    ELSE IF res # None /\ GetOr(res, "success", FALSE)
    THEN [acc EXCEPT !.results = Append(@, res), !.successful = @ + 1]
    ELSE [acc EXCEPT !.failed = @ + 1]

RECURSIVE CountFrom(_, _, _)
CountFrom(scrape_results, i, acc) ==
    IF i > Len(scrape_results) THEN acc
    ELSE CountFrom(scrape_results, i + 1, count_result(acc, scrape_results[i]))

\* scrape_urls: once every task has returned, the results are counted in the
\* order of the list and the summary is returned.
GatherAndReturn ==
    /\ sc_pc = "tasks" /\ AllGathered
    /\ LET counted == CountFrom(sc_result, 1, NoneScraped) IN
       sc_return' = [total_urls |-> Len(sc_urls),
                     successful |-> counted.successful,
                     failed |-> counted.failed,
                     results |-> counted.results]
    /\ sc_pc' = "returned"
    /\ UNCHANGED <<sc_given, sc_extra, sc_retries, sc_urls, sc_attempt,
                   sc_fetched, sc_result>>
    /\ UNCHANGED nonScrapeVars

ScrapeNext ==
    \/ CreateTasks
    \/ \E i \in 1..MaxUrls : i \in DOMAIN sc_urls /\ ScrapeSingleUrl(i)
    \/ GatherAndReturn

\* The documents of the URLs that were fetched, in the order of the list.
RECURSIVE FetchedFrom(_)
FetchedFrom(i) ==
    IF i > Len(sc_urls) THEN <<>>
    ELSE (IF sc_fetched[i] = "ok" THEN <<ScrapedDocument(sc_urls[i])>> ELSE <<>>)
            \o FetchedFrom(i + 1)

\* C18: while a task is running it can take its next step whatever the
\* other tasks met; every given URL is in the list that is fetched; and the
\* summary returned counts every entry of the list once, as successful when
\* its page was fetched and as failed otherwise, with results holding
\* exactly the fetched documents.
C18_FetchAccounting ==
    /\ sc_pc = "tasks" =>
          \A i \in DOMAIN sc_urls : Running(i) => ENABLED ScrapeSingleUrl(i)
    /\ sc_pc \in {"tasks", "returned"} => Range(sc_given) \subseteq Range(sc_urls)
    /\ sc_pc = "returned" =>
          /\ sc_return.total_urls = Len(sc_urls)
          /\ sc_return.successful + sc_return.failed = sc_return.total_urls
          /\ sc_return.successful =
                Cardinality({i \in DOMAIN sc_urls : sc_fetched[i] = "ok"})
          /\ sc_return.results = FetchedFrom(1)

C18_Witness ==
    /\ sc_pc = "returned"
    /\ Len(sc_urls) = 3
    /\ \E i, j, k \in DOMAIN sc_urls :
          /\ sc_fetched[i] = "http_error" /\ sc_attempt[i] = SCRAPING_MAX_RETRIES
          /\ sc_fetched[j] = "timeout"
          /\ sc_fetched[k] = "ok" /\ i < k
    /\ sc_return.successful = 1
    /\ sc_return.failed = 2

\* ------------------------------------------------------------------------
\* Data-extraction agent: cleaning a document's text and splitting it into
\* chunks.  A text is its length and the positions (from 0) of its periods
\* and newlines, which is all that _split_into_chunks reads of it.
\* ------------------------------------------------------------------------
MaxLines == 2
MaxSteps == 8
CHUNK_SIZE == 4000
OVERLAP == 500
MIN_PARAGRAPH == 50

\* The lines of a document: the length of the line without its surrounding
\* blanks, the positions of its periods, and whether the line starts with one
\* of the noise patterns (which removes it up to and including its newline).
Line(len, periods, noise) == [len |-> len, periods |-> periods, noise |-> noise]
LineKinds ==
    { Line(0, {}, FALSE), Line(30, {29}, FALSE), Line(50, {}, FALSE),
      Line(51, {50}, FALSE), Line(60, {}, TRUE), Line(3000, {2999}, FALSE),
      Line(4100, {}, FALSE), Line(4100, {3500, 4099}, FALSE) }
ChunkSizes == {CHUNK_SIZE, 1000, 600, OVERLAP}

EmptyText == [len |-> 0, marks |-> {}]

\* `if not text`: the text of the document is the empty string.
NoText(lines) == Len(lines) = 0 \/ (Len(lines) = 1 /\ lines[1].len = 0)

Kept(line) == ~line.noise /\ line.len > MIN_PARAGRAPH

\* '\n\n'.join(paragraphs)
RECURSIVE JoinFrom(_, _, _)
JoinFrom(paragraphs, i, acc) ==
    IF i > Len(paragraphs) THEN acc
    ELSE LET p == paragraphs[i]
             offset == IF i = 1 THEN 0 ELSE acc.len + 2
             newlines == IF i = 1 THEN {} ELSE {acc.len, acc.len + 1} IN
         JoinFrom(paragraphs, i + 1,
             [len |-> offset + p.len,
              marks |-> acc.marks \cup newlines \cup {offset + q : q \in p.periods}])

smart_clean_text(lines) ==
    IF NoText(lines) THEN EmptyText
    ELSE JoinFrom(SelectSeq(lines, Kept), 1, EmptyText)

\* The bounds of the slice text[start:end] of a text of length len.
SliceBound(len, i) == IF i < 0 THEN Max(len + i, 0) ELSE Min(i, len)
Slice(len, start, end) ==
    LET lo == SliceBound(len, start) IN
    [lo |-> lo, hi |-> Max(lo, SliceBound(len, end))]

\* max(chunk.rfind('.'), chunk.rfind('\n')) for the chunk text[lo:hi].
last_mark(text, chunk) ==
    LET inside == {m \in text.marks : chunk.lo <= m /\ m < chunk.hi} IN
    IF inside = {} THEN -1
    ELSE (CHOOSE m \in inside : \A n \in inside : n <= m) - chunk.lo

ChunkIdle ==
    /\ ck_pc = "idle"
    /\ ck_lines = <<>>
    /\ ck_size = 0
    /\ ck_text = EmptyText
    /\ ck_start = 0
    /\ ck_chunks = <<>>
    /\ ck_return = None

\* _deep_process_document is called with a document; chunk_size was read
\* from CHUNK_SIZE at construction.
ChunkInit ==
    /\ ck_pc = "start"
    /\ ck_lines \in SeqsUpTo(LineKinds, MaxLines)
    /\ ck_size \in ChunkSizes
    /\ ck_text = EmptyText
    /\ ck_start = 0
    /\ ck_chunks = <<>>
    /\ ck_return = None

\* _deep_process_document: the return for a document without text, or the
\* cleaning of its text.
CleanText ==
    /\ ck_pc = "start"
    /\ IF NoText(ck_lines)
       THEN ck_pc' = "no_text" /\ UNCHANGED ck_text
       ELSE ck_pc' = "cleaned" /\ ck_text' = smart_clean_text(ck_lines)
    /\ UNCHANGED <<ck_lines, ck_size, ck_start, ck_chunks, ck_return>>
    /\ UNCHANGED nonChunkVars

\* _split_into_chunks: a text no longer than chunk_size is returned as one
\* chunk; otherwise the loop is entered.
SplitStart ==
    /\ ck_pc = "cleaned"
    /\ IF ck_text.len <= ck_size
       THEN /\ ck_return' = <<[lo |-> 0, hi |-> ck_text.len]>>
            /\ ck_pc' = "returned"
       ELSE /\ ck_pc' = "loop"
            /\ UNCHANGED ck_return
    /\ UNCHANGED <<ck_lines, ck_size, ck_text, ck_start, ck_chunks>>
    /\ UNCHANGED nonChunkVars

\* _split_into_chunks: one iteration of the loop.
SplitStep ==
    /\ ck_pc = "loop"
    /\ ck_start < ck_text.len
    /\ Len(ck_chunks) < MaxSteps
    /\ LET end == ck_start + ck_size
           chunk == Slice(ck_text.len, ck_start, end)
           split_point == last_mark(ck_text, chunk)
           cut == end < ck_text.len /\ 10 * split_point > 7 * ck_size IN
       /\ ck_chunks' = Append(ck_chunks,
               IF cut THEN [chunk EXCEPT !.hi = Min(@, chunk.lo + split_point + 1)]
               ELSE chunk)
       /\ ck_start' = (IF cut THEN ck_start + split_point + 1 ELSE end) - OVERLAP
    /\ UNCHANGED <<ck_pc, ck_lines, ck_size, ck_text, ck_return>>
    /\ UNCHANGED nonChunkVars

\* _split_into_chunks: the loop is over and the chunks are returned.
SplitReturn ==
    /\ ck_pc = "loop"
    /\ ck_start >= ck_text.len
    /\ ck_return' = ck_chunks
    /\ ck_pc' = "returned"
    /\ UNCHANGED <<ck_lines, ck_size, ck_text, ck_start, ck_chunks>>
    /\ UNCHANGED nonChunkVars

ChunkNext == CleanText \/ SplitStart \/ SplitStep \/ SplitReturn

\* C21: no chunk returned by _split_into_chunks is empty, and a cleaned text
\* no longer than chunk_size is returned as one chunk holding all of it.
C21_NoEmptyChunk ==
    ck_pc = "returned" =>
        /\ \A i \in 1..Len(ck_return) : ck_return[i].hi > ck_return[i].lo
        /\ ck_text.len <= ck_size =>
              ck_return = <<[lo |-> 0, hi |-> ck_text.len]>>

\* C27: every iteration of the loop of _split_into_chunks moves start
\* forward.
C27_StartIncreases == [][SplitStep => ck_start' > ck_start]_vars

\* ------------------------------------------------------------------------
\* Data-extraction agent: scoring and ranking of the canonical entities.
\* A description is a text followed by pad periods, so that its length can
\* pass the thresholds; names and queries are sequences of characters.
\* ------------------------------------------------------------------------
MaxScored == 3
SCORE_NAME == 10
SCORE_DESCRIPTION == 5
SCORE_HIGH == 8
SCORE_MEDIUM == 4
MENTION_CAP == 10
LONG_DESCRIPTION == 100
FAIR_DESCRIPTION == 50
SOURCES_CAP == 5

Description(text, pad) == [text |-> text, pad |-> pad]
NoDescription == Description(<<>>, 0)
Facts(n) == [i \in 1..n |-> "fact"]
Sources(n) == [i \in 1..n |-> "doc"]

NameAb == <<"A", "b">>
NameCd == <<"c", "d">>
NameEf == <<"e", "f">>
NameGh == <<"g", "h">>
NameIj == <<"i", "j">>

\* Canonical entities as they reach the scorer: extracted ones, one that
\* came from the expansion step (no importance, no sources, no key_facts),
\* and one without a name.
ScoredTemplates ==
    { [name |-> NameAb, description |-> Description(<<"a", "b", " ", "c", "o">>, 0),
       importance |-> "high", key_facts |-> Facts(2), sources |-> Sources(1)],
      [name |-> NameCd, description |-> Description(<<"x", "A", "B">>, 98),
       importance |-> "medium", key_facts |-> Facts(0), sources |-> Sources(6)],
      [name |-> NameEf, description |-> Description(<<>>, 51),
       importance |-> "low", key_facts |-> Facts(0), sources |-> Sources(1)],
      [name |-> NameIj, description |-> Description(<<>>, 51),
       importance |-> "low", key_facts |-> Facts(0), sources |-> Sources(1)],
      [name |-> NameGh, description |-> Description(<<"w", "h", "y">>, 47)],
      [description |-> Description(<<>>, 100), importance |-> "other",
       sources |-> Sources(5)] }

Edge(source, target) == [source |-> source, target |-> target, relation |-> use]
ScoredRelationships ==
    { <<>>,
      <<Edge(NameAb, NameCd)>>,
      <<Edge(NameAb, NameAb), Edge(NameEf, NameIj)>>,
      <<Edge(NameAb, NameCd), Edge(NameAb, NameEf), Edge(NameAb, NameGh),
        Edge(NameCd, NameAb), Edge(NameEf, NameAb), Edge(NameIj, NameAb)>>,
      <<[target |-> NameGh, relation |-> use]>> }
Queries == {<<>>, <<"A", "B">>, <<"c", "d">>}

\* q in s for two strings.
Contains(s, q) == \E i \in 0..(Len(s) - Len(q)) : SubSeq(s, i + 1, i + Len(q)) = q

\* entity_mentions after one more relationship.
count_mentions(entity_mentions, r) ==
    LET source == GetOr(r, "source", <<>>)
        target == GetOr(r, "target", <<>>)
        first == [n \in DOMAIN entity_mentions \cup {source} |->
                    GetOr(entity_mentions, n, 0) + (IF n = source THEN 1 ELSE 0)]
    IN [n \in DOMAIN first \cup {target} |->
            GetOr(first, n, 0) + (IF n = target THEN 1 ELSE 0)]

RECURSIVE MentionsFrom(_, _, _)
MentionsFrom(rels, i, entity_mentions) ==
    IF i > Len(rels) THEN entity_mentions
    ELSE MentionsFrom(rels, i + 1, count_mentions(entity_mentions, rels[i]))

\* The score of one entity, with the description threshold at 100 included.
relevance_score_Mut(entity, entity_mentions, q_lower) ==
    LET name == GetOr(entity, "name", <<>>)
        description == GetOr(entity, "description", NoDescription)
        importance == GetOr(entity, "importance", "medium")
        desc_length == Len(description.text) + description.pad
    IN (IF Contains(Lower(name), q_lower) THEN SCORE_NAME ELSE 0)
       + (IF Contains(Lower(description.text), q_lower) THEN SCORE_DESCRIPTION ELSE 0)
       + (IF importance = "high" THEN SCORE_HIGH
          ELSE IF importance = "medium" THEN SCORE_MEDIUM ELSE 0)
       + Min(GetOr(entity_mentions, name, 0) * 2, MENTION_CAP)
       + (IF desc_length >= LONG_DESCRIPTION THEN 3
          ELSE IF desc_length > FAIR_DESCRIPTION THEN 1 ELSE 0)
       + Len(GetOr(entity, "key_facts", <<>>))
       + Min(Len(GetOr(entity, "sources", <<>>)), SOURCES_CAP)

\* The score of one entity, term by term as the loop adds them.
relevance_score(entity, entity_mentions, q_lower) ==
    LET name == GetOr(entity, "name", <<>>)
        description == GetOr(entity, "description", NoDescription)
        importance == GetOr(entity, "importance", "medium")
        desc_length == Len(description.text) + description.pad
    IN (IF Contains(Lower(name), q_lower) THEN SCORE_NAME ELSE 0)
       + (IF Contains(Lower(description.text), q_lower) THEN SCORE_DESCRIPTION ELSE 0)
       + (IF importance = "high" THEN SCORE_HIGH
          ELSE IF importance = "medium" THEN SCORE_MEDIUM ELSE 0)
       + Min(GetOr(entity_mentions, name, 0) * 2, MENTION_CAP)
       + (IF desc_length > LONG_DESCRIPTION THEN 3
          ELSE IF desc_length > FAIR_DESCRIPTION THEN 1 ELSE 0)
       + Len(GetOr(entity, "key_facts", <<>>))
       + Min(Len(GetOr(entity, "sources", <<>>)), SOURCES_CAP)

\* One insertion of a sort that puts an entity before those of equal score.
insert_ranked_Mut(ranked, entity) ==
    LET before == {i \in 1..Len(ranked) :
                      ranked[i].relevance_score > entity.relevance_score}
        k == Cardinality(before)
    IN SubSeq(ranked, 1, k) \o <<entity>> \o SubSeq(ranked, k + 1, Len(ranked))

\* list.sort(key = relevance_score, reverse = True), one insertion: the sort
\* is stable, so an entity goes after every entity placed earlier whose
\* score is not lower.
insert_ranked(ranked, entity) ==
    LET before == {i \in 1..Len(ranked) :
                      ranked[i].relevance_score >= entity.relevance_score}
        k == Cardinality(before)
    IN SubSeq(ranked, 1, k) \o <<entity>> \o SubSeq(ranked, k + 1, Len(ranked))

RECURSIVE SortFrom(_, _, _)
SortFrom(entities, i, ranked) ==
    IF i > Len(entities) THEN ranked
    ELSE SortFrom(entities, i + 1, insert_ranked(ranked, entities[i]))

\* _score_and_rank_entities: every entity gets its relevance_score, then the
\* list is sorted.
score_and_rank_entities(entities, rels, query) ==
    LET entity_mentions == MentionsFrom(rels, 1, [n \in {} |-> 0])
        q_lower == Lower(query)
        scored == [i \in 1..Len(entities) |->
                     With(entities[i], "relevance_score",
                          relevance_score(entities[i], entity_mentions, q_lower))]
    IN SortFrom(scored, 1, <<>>)

ScoreIdle ==
    /\ sr_pc = "idle"
    /\ sr_given = <<>>
    /\ sr_entities = <<>>
    /\ sr_relationships = <<>>
    /\ sr_query = <<>>
    /\ sr_return = None

\* The caller holds the canonical entities and relationships of a round.
ScoreInit ==
    /\ sr_pc = "start"
    /\ sr_given \in SeqsUpTo(ScoredTemplates, MaxScored)
    /\ sr_entities = sr_given
    /\ sr_relationships \in ScoredRelationships
    /\ sr_query \in Queries
    /\ sr_return = None

\* extract_and_analyze calls _score_and_rank_entities, which writes the score
\* into each record of the caller's list, sorts that list in place and
\* returns it.
ScoreAndRank ==
    /\ sr_pc = "start"
    /\ sr_entities' = score_and_rank_entities(sr_entities, sr_relationships, sr_query)
    /\ sr_return' = sr_entities'
    /\ sr_pc' = "returned"
    /\ UNCHANGED <<sr_given, sr_relationships, sr_query>>
    /\ UNCHANGED nonScoreVars

\* A second call on the list the first call returned.
ScoreAgain ==
    /\ sr_pc = "returned"
    /\ sr_entities' = score_and_rank_entities(sr_entities, sr_relationships, sr_query)
    /\ sr_return' = sr_entities'
    /\ sr_pc' = "returned_again"
    /\ UNCHANGED <<sr_given, sr_relationships, sr_query>>
    /\ UNCHANGED nonScoreVars

ScoreNext == ScoreAndRank \/ ScoreAgain

ScoreReturned == sr_pc \in {"returned", "returned_again"}

\* The number of relationship endpoints equal to a name.
MentionCount(name) ==
    Cardinality({p \in (1..Len(sr_relationships)) \X {"source", "target"} :
                    GetOr(sr_relationships[p[1]], p[2], <<>>) = name})

\* The score the formula gives an entity; an entity without a field is read
\* with the default of that field (no name, no description, importance
\* medium, no key_facts, no sources).
FormulaScore(e) ==
    LET name == GetOr(e, "name", <<>>)
        description == GetOr(e, "description", NoDescription)
        importance == GetOr(e, "importance", "medium")
        length == Len(description.text) + description.pad
        a == IF Contains(Lower(name), Lower(sr_query)) THEN 10 ELSE 0
        b == IF Contains(Lower(description.text), Lower(sr_query)) THEN 5 ELSE 0
        c == CASE importance = "high" -> 8 [] importance = "medium" -> 4 [] OTHER -> 0
        d == Min(2 * MentionCount(name), 10)
        f == IF length > 100 THEN 3 ELSE IF length > 50 THEN 1 ELSE 0
        g == Len(GetOr(e, "key_facts", <<>>))
        h == Min(Len(GetOr(e, "sources", <<>>)), 5)
    IN a + b + c + d + f + g + h

Injections(n) == {f \in [1..n -> 1..n] : \A i, j \in 1..n : f[i] = f[j] => i = j}

\* C25: the returned list holds the given entities, each once and each with
\* its score, in non-increasing order of score, and entities of equal score
\* are in the order in which they were given.
C25_RankingOrder ==
    sr_pc = "returned" =>
        /\ Len(sr_return) = Len(sr_given)
        /\ \E from \in Injections(Len(sr_given)) :
              /\ \A i \in 1..Len(sr_return) :
                    Drop(sr_return[i], "relevance_score") = sr_given[from[i]]
              /\ \A i, j \in 1..Len(sr_return) :
                    (i < j /\ sr_return[i].relevance_score = sr_return[j].relevance_score)
                        => from[i] < from[j]
        /\ \A i, j \in 1..Len(sr_return) :
              i < j => sr_return[i].relevance_score >= sr_return[j].relevance_score

C25_Witness ==
    /\ sr_pc = "returned"
    /\ Len(sr_return) = 3
    /\ GetOr(sr_given[1], "name", <<>>) = NameIj
    /\ GetOr(sr_given[2], "name", <<>>) = NameAb
    /\ GetOr(sr_given[3], "name", <<>>) = NameEf
    /\ GetOr(sr_return[1], "name", <<>>) = NameAb
    /\ GetOr(sr_return[2], "name", <<>>) = NameIj
    /\ GetOr(sr_return[3], "name", <<>>) = NameEf
    /\ sr_return[2].relevance_score = sr_return[3].relevance_score

\* C26: after the call the caller's entity list holds the records it held
\* before the call, in the same order and with the same fields.
C26_ScorerPurity == ScoreReturned => sr_entities = sr_given

\* ------------------------------------------------------------------------
\* Web-search agent: the result limit of the search engine shared by the
\* routes GET /search, GET /search/news and POST /search
\* ------------------------------------------------------------------------
MaxRequests == 2

Requests == 1..MaxRequests
NoLimit == [given |-> FALSE, value |-> 0]
Limit(n) == [given |-> TRUE, value |-> n]

\* A request: its route and its max_results parameter (POST /search has
\* none).
RequestKinds ==
    {[route |-> "search_post", max_results |-> NoLimit]}
    \cup {[route |-> r, max_results |-> m] :
            r \in {"search", "search_news"}, m \in {NoLimit, Limit(0), Limit(3), Limit(20)}}

\* `if max_results:`
Truthy(m) == m.given /\ m.value # 0

LimitIdle ==
    /\ lm_max_results = 0
    /\ lm_requests = <<>>

\* The module is loaded: search_engine is built with SEARCH_MAX_RESULTS, and
\* the requests are about to arrive.
LimitInit ==
    /\ lm_max_results = SEARCH_MAX_RESULTS
    /\ \E kinds \in [Requests -> RequestKinds] :
          lm_requests = [r \in Requests |->
                            [route |-> kinds[r].route,
                             max_results |-> kinds[r].max_results,
                             at |-> "waiting", applied |-> 0]]

\* search, search_news, search_post up to the first await of the search: the
\* two GET routes store a max_results parameter in the search engine.
ReceiveRequest(r) ==
    /\ lm_requests[r].at = "waiting"
    /\ lm_max_results' =
          IF lm_requests[r].route \in {"search", "search_news"}
                /\ Truthy(lm_requests[r].max_results)
          THEN lm_requests[r].max_results.value
          ELSE lm_max_results
    /\ lm_requests' = [lm_requests EXCEPT ![r].at = "searching"]
    /\ UNCHANGED nonLimitVars

\* The search is over: the engine has asked for search_engine.max_results
\* results and the route cuts the list at search_engine.max_results.
AnswerRequest(r) ==
    /\ lm_requests[r].at = "searching"
    /\ lm_requests' = [lm_requests EXCEPT ![r].at = "answered",
                                          ![r].applied = lm_max_results]
    /\ UNCHANGED lm_max_results
    /\ UNCHANGED nonLimitVars

LimitNext ==
    \/ \E r \in Requests : ReceiveRequest(r)
    \/ \E r \in Requests : AnswerRequest(r)

\* C30: the limit applied to a request is its own max_results parameter,
\* or the configured default when it has none.
C30_LimitIsolation ==
    \A r \in DOMAIN lm_requests :
        lm_requests[r].at = "answered" =>
            lm_requests[r].applied =
                (IF Truthy(lm_requests[r].max_results)
                 THEN lm_requests[r].max_results.value
                 ELSE SEARCH_MAX_RESULTS)

\* Specifications: each starts one part of the program and leaves the
\* others idle.
InitNorm == OrchIdle /\ NormInit /\ ExtIdle /\ RelIdle /\ StoreIdle /\ RoundIdle /\ ScrapeIdle /\ ChunkIdle /\ ScoreIdle /\ LimitIdle
SpecNorm == InitNorm /\ [][NormNext]_vars

InitExtract == OrchIdle /\ NormIdle /\ ExtInit /\ RelIdle /\ StoreIdle /\ RoundIdle /\ ScrapeIdle /\ ChunkIdle /\ ScoreIdle /\ LimitIdle
SpecExtract == InitExtract /\ [][ExtNext]_vars

InitRel == OrchIdle /\ NormIdle /\ ExtIdle /\ RelInit /\ StoreIdle /\ RoundIdle /\ ScrapeIdle /\ ChunkIdle /\ ScoreIdle /\ LimitIdle
SpecRel == InitRel /\ [][RelNext]_vars

InitStore == OrchIdle /\ NormIdle /\ ExtIdle /\ RelIdle /\ StoreInit /\ RoundIdle /\ ScrapeIdle /\ ChunkIdle /\ ScoreIdle /\ LimitIdle
SpecStore == InitStore /\ [][StoreNext]_vars

InitRound == OrchIdle /\ NormIdle /\ ExtIdle /\ RelIdle /\ StoreIdle /\ RoundInit /\ ScrapeIdle /\ ChunkIdle /\ ScoreIdle /\ LimitIdle
SpecRound == InitRound /\ [][RoundNext]_vars

InitScrape == OrchIdle /\ NormIdle /\ ExtIdle /\ RelIdle /\ StoreIdle /\ RoundIdle /\ ScrapeInit /\ ChunkIdle /\ ScoreIdle /\ LimitIdle
SpecScrape == InitScrape /\ [][ScrapeNext]_vars

InitChunk == OrchIdle /\ NormIdle /\ ExtIdle /\ RelIdle /\ StoreIdle /\ RoundIdle /\ ScrapeIdle /\ ChunkInit /\ ScoreIdle /\ LimitIdle
SpecChunk == InitChunk /\ [][ChunkNext]_vars

InitScore == OrchIdle /\ NormIdle /\ ExtIdle /\ RelIdle /\ StoreIdle /\ RoundIdle /\ ScrapeIdle /\ ChunkIdle /\ ScoreInit /\ LimitIdle
SpecScore == InitScore /\ [][ScoreNext]_vars

InitLimit == OrchIdle /\ NormIdle /\ ExtIdle /\ RelIdle /\ StoreIdle /\ RoundIdle /\ ScrapeIdle /\ ChunkIdle /\ ScoreIdle /\ LimitInit
SpecLimit == InitLimit /\ [][LimitNext]_vars

Next == OrchNext

Init == OrchInit /\ NormIdle /\ ExtIdle /\ RelIdle /\ StoreIdle /\ RoundIdle /\ ScrapeIdle /\ ChunkIdle /\ ScoreIdle /\ LimitIdle

Spec == Init /\ [][Next]_vars
====
